---- MODULE Spec2Model ----
(***************************************************************************)
(* Model of the War of the Ring ladder update (wotr-ladder-update).        *)
(*                                                                         *)
(* A spreadsheet holds a table of pending game reports, the ladder, and    *)
(* two report histories.  updateWotrLadder reads a batch of pending        *)
(* reports and the ladder, processes the ladder games in memory, and       *)
(* writes the results back.  The model follows the TypeScript source       *)
(* statement by statement; sheet cells are JavaScript values tagged with   *)
(* their typeof, strings are sequences of one-character strings.           *)
(***************************************************************************)
EXTENDS Integers, Sequences, FiniteSets, TLC

VARIABLES
  c21,                     \* store: cell C21 of the Update sheet (batch size)
  responseSheet,           \* store: data rows of the form-response sheet
  ladderSheet,             \* store: rows of the ladder sheet below its header
  reportSheet,             \* store: data rows of 'WotR Reports'
  reportSheetWithoutStats, \* store: data rows of 'Ladder Games with no stats'
  writes,                  \* store: the write calls issued so far, in order
  pc,                      \* position inside updateWotrLadder
  batchSize,               \* FormResponseSheet._batchSize
  reports,                 \* updateWotrLadder: reports (row, annotation)
  next,                    \* updateWotrLadder: index of the next report of the forEach
  originalPlayerCount,     \* updateWotrLadder: originalPlayerCount
  originalEntries,         \* Ladder.originalEntries (the entry objects, by position)
  entries,                 \* Ladder.entries (references into originalEntries)
  entryMap,                \* Ladder.entryMap (normalized name -> reference)
  eloIn,                   \* arguments of a direct computeEloDiff call
  eloOut,                  \* result of a direct computeEloDiff call
  called,                  \* the last direct call on a Ladder and what it returned
  started,                 \* the ladder and pending rows stored at the first start
  restarts                 \* how often the run was aborted and started again

vars == <<c21, responseSheet, ladderSheet, reportSheet, reportSheetWithoutStats,
          writes, pc, batchSize, reports, next, originalPlayerCount,
          originalEntries, entries, entryMap, eloIn, eloOut, called, started, restarts>>

-----------------------------------------------------------------------------
(* Bounds of the model.                                                    *)

\* Largest number of pending rows in the form-response sheet.
MaxPending == 3
\* Largest numeric batch size written in cell C21.
MaxBatch == 2
\* Largest rating handed to a direct computeEloDiff call.
MaxRating == 505
\* Largest number of aborted runs before the run that goes through.
MaxRestarts == 1
\* Largest number of direct addPlayer / processReport calls on one Ladder.
MaxCalls == 2

-----------------------------------------------------------------------------
(* JavaScript values and strings.                                          *)

Num(x) == [t |-> "number", v |-> x]
Str(s) == [t |-> "string", v |-> s]
Date(x) == [t |-> "Date", v |-> x]
typeof(val) == val.t
EmptyString == Str(<<>>)

UpperCase == <<"A", "B", "C", "D", "E", "F", "G", "H", "I", "J", "K", "L", "M",
               "N", "O", "P", "Q", "R", "S", "T", "U", "V", "W", "X", "Y", "Z">>
LowerCase == <<"a", "b", "c", "d", "e", "f", "g", "h", "i", "j", "k", "l", "m",
               "n", "o", "p", "q", "r", "s", "t", "u", "v", "w", "x", "y", "z">>

toLowerCaseChar(c) ==
  IF \E k \in DOMAIN UpperCase : UpperCase[k] = c
    THEN LowerCase[CHOOSE k \in DOMAIN UpperCase : UpperCase[k] = c]
    ELSE c

\* String.prototype.toLowerCase
toLowerCase(s) == [k \in 1..Len(s) |-> toLowerCaseChar(s[k])]

RECURSIVE trimStart(_)
trimStart(s) == IF s # <<>> /\ Head(s) = " " THEN trimStart(Tail(s)) ELSE s

RECURSIVE trimEnd(_)
trimEnd(s) ==
  IF s # <<>> /\ s[Len(s)] = " " THEN trimEnd(SubSeq(s, 1, Len(s) - 1)) ELSE s

\* String.prototype.trim
trim(s) == trimEnd(trimStart(s))

\* String.prototype.startsWith
startsWith(s, prefix) ==
  Len(prefix) <= Len(s) /\ SubSeq(s, 1, Len(prefix)) = prefix

\* String.prototype.includes
includes(s, sub) ==
  \E k \in 1..(Len(s) - Len(sub) + 1) : SubSeq(s, k, k + Len(sub) - 1) = sub

-----------------------------------------------------------------------------
(* The rating engine.                                                      *)

\* Number.MAX_SAFE_INTEGER is 2^53 - 1; the model keeps the largest integer
\* TLC represents, far above every rating difference of the model.
MAX_SAFE_INTEGER == 2147483647

SCORE_BUCKETS == <<10, 33, 56, 79, 102, 126, 151, 178, 207, 236, 270, 308, 352,
                   409, 499, MAX_SAFE_INTEGER>>
WINNER_HIGHER == <<16, 15, 14, 13, 12, 11, 10, 9, 8, 7, 6, 5, 4, 3, 2, 1>>
WINNER_LOWER == <<16, 17, 18, 19, 20, 21, 22, 23, 24, 25, 26, 27, 28, 29, 30, 31>>

\* The result of a call that may throw.
Ok(x) == [ok |-> TRUE, v |-> x]
Thrown == [ok |-> FALSE]

abs(x) == IF x < 0 THEN -x ELSE x

\* A scan that compares with < : the value of the next bucket at a bound.
partitionScanStrict(key, partitions, values, k) ==
  IF \E j \in k..Len(partitions) : key < partitions[j]
    THEN Ok(values[CHOOSE j \in k..Len(partitions) :
                     /\ key < partitions[j]
                     /\ \A h \in k..(j - 1) : ~(key < partitions[h])])
    ELSE Thrown

\* The for loop of getPartitionedValue, from index k on.
RECURSIVE partitionScan(_, _, _, _)
partitionScan(key, partitions, values, k) ==
  IF k > Len(partitions) THEN Thrown
  ELSE IF key <= partitions[k] THEN Ok(values[k])
  ELSE partitionScan(key, partitions, values, k + 1)

getPartitionedValue(key, partitions, values) ==
  IF Len(partitions) # Len(values) THEN Thrown
  ELSE partitionScan(key, partitions, values, 1)

computeEloDiff(winnerRating, loserRating) ==
  LET scoreAdjustments ==
        IF winnerRating < loserRating THEN WINNER_LOWER ELSE WINNER_HIGHER
      scoreDiff == abs(winnerRating - loserRating)
  IN  getPartitionedValue(scoreDiff, SCORE_BUCKETS, scoreAdjustments)

-----------------------------------------------------------------------------
(* String literals of the source, spelled out character by character.      *)

chars(s) ==
  CASE s = "Friendly" ->
       <<"F", "r", "i", "e", "n", "d", "l", "y">>
  [] s = "Ladder" ->
       <<"L", "a", "d", "d", "e", "r">>
  [] s = "Ladder and tournament" ->
       <<"L", "a", "d", "d", "e", "r", " ", "a", "n", "d", " ", "t", "o", "u", "r", "n",
         "a", "m", "e", "n", "t">>
  [] s = "Ladder and league (general)" ->
       <<"L", "a", "d", "d", "e", "r", " ", "a", "n", "d", " ", "l", "e", "a", "g", "u",
         "e", " ", "(", "g", "e", "n", "e", "r", "a", "l", ")">>
  [] s = "Ladder and league (lome)" ->
       <<"L", "a", "d", "d", "e", "r", " ", "a", "n", "d", " ", "l", "e", "a", "g", "u",
         "e", " ", "(", "l", "o", "m", "e", ")">>
  [] s = "Ladder and league (TTS)" ->
       <<"L", "a", "d", "d", "e", "r", " ", "a", "n", "d", " ", "l", "e", "a", "g", "u",
         "e", " ", "(", "T", "T", "S", ")">>
  [] s = "Ladder and league (wome)" ->
       <<"L", "a", "d", "d", "e", "r", " ", "a", "n", "d", " ", "l", "e", "a", "g", "u",
         "e", " ", "(", "w", "o", "m", "e", ")">>
  [] s = "Ladder and league (super)" ->
       <<"L", "a", "d", "d", "e", "r", " ", "a", "n", "d", " ", "l", "e", "a", "g", "u",
         "e", " ", "(", "s", "u", "p", "e", "r", ")">>
  [] s = "Ladder but I cannot remember the stats" ->
       <<"L", "a", "d", "d", "e", "r", " ", "b", "u", "t", " ", "I", " ", "c", "a", "n",
         "n", "o", "t", " ", "r", "e", "m", "e", "m", "b", "e", "r", " ", "t", "h", "e",
         " ", "s", "t", "a", "t", "s">>
  [] s = "Free People Ring" ->
       <<"F", "r", "e", "e", " ", "P", "e", "o", "p", "l", "e", " ", "R", "i", "n", "g">>
  [] s = "Free People Military" ->
       <<"F", "r", "e", "e", " ", "P", "e", "o", "p", "l", "e", " ", "M", "i", "l", "i",
         "t", "a", "r", "y">>
  [] s = "Conceded FP won" ->
       <<"C", "o", "n", "c", "e", "d", "e", "d", " ", "F", "P", " ", "w", "o", "n">>
  [] s = "Shadow Forces Corruption" ->
       <<"S", "h", "a", "d", "o", "w", " ", "F", "o", "r", "c", "e", "s", " ", "C", "o",
         "r", "r", "u", "p", "t", "i", "o", "n">>
  [] s = "Shadow Forces Military" ->
       <<"S", "h", "a", "d", "o", "w", " ", "F", "o", "r", "c", "e", "s", " ", "M", "i",
         "l", "i", "t", "a", "r", "y">>
  [] s = "Conceded SP won" ->
       <<"C", "o", "n", "c", "e", "d", "e", "d", " ", "S", "P", " ", "w", "o", "n">>
  [] s = "Shadow" ->
       <<"S", "h", "a", "d", "o", "w">>
  [] s = "SP" ->
       <<"S", "P">>
  [] s = "Ranked" ->
       <<"R", "a", "n", "k", "e", "d">>
  [] s = "Draw" ->
       <<"D", "r", "a", "w">>
  [] s = "FP" ->
       <<"F", "P">>
  [] s = "Two Tower / Return of the King" ->
       <<"T", "w", "o", " ", "T", "o", "w", "e", "r", " ", "/", " ",
         "R", "e", "t", "u", "r", "n", " ", "o", "f", " ", "t", "h", "e", " ", "K", "i", "n", "g">>

-----------------------------------------------------------------------------
(* Row schemas and validators (types/wotrTypes).                           *)

VICTORY == {"Free People Ring", "Free People Military", "Conceded FP won",
            "Shadow Forces Corruption", "Shadow Forces Military", "Conceded SP won"}

COMPETITIVE == {"Friendly", "Ladder", "Ladder and tournament",
                "Ladder and league (general)", "Ladder and league (lome)",
                "Ladder and league (TTS)", "Ladder and league (wome)",
                "Ladder and league (super)",
                "Ladder but I cannot remember the stats"}

isVictory(val) == typeof(val) = "string" /\ val.v \in VICTORY
isCompetitive(val) == typeof(val) = "string" /\ val.v \in COMPETITIVE

WOTR_REPORT_ROW_LENGTH == 47
WOTR_LADDER_ROW_LENGTH == 7

\* A report row keeps the cells the update reads: [0] timestamp, [2] winner,
\* [3] loser, [5] victory, [6] competitive; others says whether each of the
\* remaining 42 cells passes its own typeof / union check.
parseWotrReportRow(val) ==
  IF val.len # WOTR_REPORT_ROW_LENGTH THEN Thrown
  ELSE IF typeof(val.timestamp) # "Date" THEN Thrown
  ELSE IF typeof(val.winner) # "string" THEN Thrown
  ELSE IF typeof(val.loser) # "string" THEN Thrown
  ELSE IF ~isVictory(val.victory) THEN Thrown
  ELSE IF ~isCompetitive(val.competitive) THEN Thrown
  ELSE IF ~val.others THEN Thrown
  ELSE Ok([val EXCEPT !.winner = Str(trim(val.winner.v)),
                      !.loser = Str(trim(val.loser.v))])

NOT_ACTIVE_PLAYERS ==
  <<"N", "O", "T", " ", "A", "C", "T", "I", "V", "E", " ",
    "P", "L", "A", "Y", "E", "R", "S">>

\* val === '' on a tagged cell.
isEmptyString(val) == typeof(val) = "string" /\ val.v = <<>>

\* A divider test that looks at the name only.
isNotActiveDividerByName(val) ==
  typeof(val.name) = "string" /\ val.name.v = NOT_ACTIVE_PLAYERS

isNotActiveDivider(val) ==
  /\ typeof(val.name) = "string" /\ val.name.v = NOT_ACTIVE_PLAYERS
  /\ isEmptyString(val.shadowRating)
  /\ isEmptyString(val.freeRating)
  /\ isEmptyString(val.gamesPlayed)

\* A ladder row keeps [0] rank, [2] name, [3] rating, [4] shadowRating,
\* [5] freeRating, [6] gamesPlayed; [1] flag is never checked nor read.
parseWotrLadderRow(val) ==
  IF val.len # WOTR_LADDER_ROW_LENGTH THEN Thrown
  ELSE IF typeof(val.rank) # "number" THEN Thrown
  ELSE IF typeof(val.name) # "string" THEN Thrown
  ELSE IF typeof(val.rating) # "number" THEN Thrown
  ELSE IF typeof(val.shadowRating) # "number" /\ ~isNotActiveDivider(val) THEN Thrown
  ELSE IF typeof(val.freeRating) # "number" /\ ~isNotActiveDivider(val) THEN Thrown
  ELSE IF typeof(val.gamesPlayed) # "number" /\ ~isNotActiveDivider(val) THEN Thrown
  ELSE Ok([val EXCEPT !.name = Str(trim(val.name.v))])

\* rows.map(parser): the parsed rows, or Thrown when one row is rejected.
parseAllReports(rows) ==
  IF \E k \in DOMAIN rows : ~parseWotrReportRow(rows[k]).ok THEN Thrown
  ELSE Ok([k \in DOMAIN rows |-> parseWotrReportRow(rows[k]).v])

parseAllLadderRows(rows) ==
  IF \E k \in DOMAIN rows : ~parseWotrLadderRow(rows[k]).ok THEN Thrown
  ELSE Ok([k \in DOMAIN rows |-> parseWotrLadderRow(rows[k]).v])

-----------------------------------------------------------------------------
(* Reports (objects.ts).                                                   *)

ZeroAnnotation == <<0, 0, 0, 0, 0, 0, 0, 0>>

WotrReport(row) == [row |-> row, annotation |-> ZeroAnnotation]

\* A filter that lets every valid classification through.
isLadderGameUnfiltered(report) == report.row.competitive.v \in COMPETITIVE

isLadderGame(report) == startsWith(chars(report.row.competitive.v), chars("Ladder"))

\* A comparison with a misspelt literal: no report is without stats.
hasStatsMisspelt(report) ==
  report.row.competitive.v # "Ladder but I can not remember the stats"

hasStats(report) ==
  report.row.competitive.v # "Ladder but I cannot remember the stats"

winningSide(report) ==
  IF \/ includes(chars(report.row.victory.v), chars("Shadow"))
     \/ includes(chars(report.row.victory.v), chars("SP"))
    THEN "Shadow" ELSE "Free"

losingSide(report) == IF winningSide(report) = "Shadow" THEN "Free" ELSE "Shadow"

-----------------------------------------------------------------------------
(* Ladder entries (objects.ts).  The numeric fields keep the cell as read: *)
(* the divider row carries '' where a player row carries a number.         *)

WotrLadderEntry(row) ==
  [name |-> row.name.v, shadowRating |-> row.shadowRating,
   freeRating |-> row.freeRating, gamesPlayed |-> row.gamesPlayed]

\* Twice avgRating(): the comparator only uses the sign of a difference of
\* averages, which is the sign of the difference of the sums.
avgRatingTimes2(entry) == entry.shadowRating.v + entry.freeRating.v

\* A reading that returns the Shadow rating for either side.
getRatingOfShadow(entry, side) == entry.shadowRating.v

getRating(entry, side) ==
  IF side = "Shadow" THEN entry.shadowRating.v ELSE entry.freeRating.v

setRating(entry, side, value) ==
  IF side = "Shadow" THEN [entry EXCEPT !.shadowRating = Num(value)]
  ELSE [entry EXCEPT !.freeRating = Num(value)]


-----------------------------------------------------------------------------
(* The ladder (objects.ts).  A ladder is a record of originalEntries (the  *)
(* entry objects; an object is identified by its position, which never     *)
(* changes because the array is only pushed to), entries (references) and  *)
(* entryMap (a function from normalized names to references).              *)

\* A normalization that keeps the letter case.
normalizeAsIs(name) == name

normalize(name) == toLowerCase(name)

\* Array.prototype.indexOf on the names, 0-based, -1 when absent.
indexOfName(ents, name) ==
  IF \E k \in DOMAIN ents : ents[k].name = name
    THEN (CHOOSE k \in DOMAIN ents :
            /\ ents[k].name = name
            /\ \A h \in 1..(k - 1) : ents[h].name # name) - 1
    ELSE -1

\* A map keyed by the names as stored.
mapOfEntriesByStoredName(ents) ==
  [key \in {ents[k].name : k \in DOMAIN ents} |->
     CHOOSE k \in DOMAIN ents :
       /\ ents[k].name = key
       /\ \A h \in (k + 1)..Len(ents) : ents[h].name # key]

\* new Map(pairs): a later pair replaces an earlier pair with the same key.
mapOfEntries(ents) ==
  [key \in {normalize(ents[k].name) : k \in DOMAIN ents} |->
     CHOOSE k \in DOMAIN ents :
       /\ normalize(ents[k].name) = key
       /\ \A h \in (k + 1)..Len(ents) : normalize(ents[h].name) # key]

\* A constructor that keys the map by the active entries only.
LadderOfActive(ents) ==
  LET notActiveMarkerIndex == indexOfName(ents, NOT_ACTIVE_PLAYERS)
      active == IF notActiveMarkerIndex < 0
                  THEN [k \in 1..Len(ents) |-> k]
                  ELSE [k \in 1..notActiveMarkerIndex |-> k]
  IN  [originalEntries |-> ents,
       entries |-> active,
       entryMap |-> mapOfEntries(SubSeq(ents, 1, Len(active)))]

\* Ladder.constructor
Ladder(ents) ==
  LET notActiveMarkerIndex == indexOfName(ents, NOT_ACTIVE_PLAYERS)
  IN  [originalEntries |-> ents,
       entries |-> IF notActiveMarkerIndex < 0
                     THEN [k \in 1..Len(ents) |-> k]
                     ELSE [k \in 1..notActiveMarkerIndex |-> k],
       entryMap |-> mapOfEntries(ents)]

\* Ladder.getEntry: the reference, or 0 for undefined.
getEntry(ladder, name) ==
  IF normalize(name) \in DOMAIN ladder.entryMap
    THEN ladder.entryMap[normalize(name)]
    ELSE 0

\* A rank looked up in originalEntries instead of the ranked view.
getRankInOriginalEntries(ladder, name) ==
  LET found == {k \in DOMAIN ladder.originalEntries :
                  normalize(ladder.originalEntries[k].name) = normalize(name)}
  IN  IF found = {} THEN 0
      ELSE CHOOSE k \in found : \A h \in found : k <= h

\* Ladder.getRank
getRank(ladder, name) ==
  LET normalizedName == normalize(name)
      found == {k \in DOMAIN ladder.entries :
                  normalize(ladder.originalEntries[ladder.entries[k]].name)
                    = normalizedName}
  IN  IF found = {} THEN 0
      ELSE CHOOSE k \in found : \A h \in found : k <= h

\* One insertion of the stable sort: ref goes behind every reference whose
\* entry compares as not after it (b.avgRating() - a.avgRating() <= 0).
RECURSIVE insertSorted(_, _, _)
insertSorted(objs, sorted, ref) ==
  IF sorted = <<>> THEN <<ref>>
  ELSE IF avgRatingTimes2(objs[ref]) > avgRatingTimes2(objs[Head(sorted)])
    THEN <<ref>> \o sorted
  ELSE <<Head(sorted)>> \o insertSorted(objs, Tail(sorted), ref)

RECURSIVE sortFrom(_, _, _)
sortFrom(objs, sorted, rest) ==
  IF rest = <<>> THEN sorted
  ELSE sortFrom(objs, insertSorted(objs, sorted, Head(rest)), Tail(rest))

\* this.entries.sort((a, b) => b.avgRating() - a.avgRating()); Array sort is
\* stable (ECMAScript 2019).
sortEntries(objs, refs) == sortFrom(objs, <<>>, refs)

DEFAULT_RATING == 500

\* A default entry built from a row whose cells are shifted by one: the
\* games-played field takes the rating cell before it.
getDefaultEntryShifted(name) ==
  WotrLadderEntry([name |-> Str(name), shadowRating |-> Num(DEFAULT_RATING),
                   freeRating |-> Num(DEFAULT_RATING),
                   gamesPlayed |-> Num(DEFAULT_RATING)])

\* WotrLadder.getDefaultEntry
getDefaultEntry(name) ==
  WotrLadderEntry([name |-> Str(name), shadowRating |-> Num(DEFAULT_RATING),
                   freeRating |-> Num(DEFAULT_RATING), gamesPlayed |-> Num(0)])

\* An addPlayer that assigns to the last slot instead of pushing.
addPlayerOverLast(ladder, name) ==
  LET ref == Len(ladder.originalEntries)
      objs == [ladder.originalEntries EXCEPT ![ref] = getDefaultEntry(name)]
      key == normalize(name)
  IN  [originalEntries |-> objs,
       entries |-> sortEntries(objs, Append(ladder.entries, ref)),
       entryMap |-> [k \in DOMAIN ladder.entryMap \cup {key} |->
                       IF k = key THEN ref ELSE ladder.entryMap[k]]]

\* An addPlayer that forgets the ranked view.
addPlayerUnranked(ladder, name) ==
  LET objs == Append(ladder.originalEntries, getDefaultEntry(name))
      key == normalize(name)
  IN  [originalEntries |-> objs,
       entries |-> ladder.entries,
       entryMap |-> [k \in DOMAIN ladder.entryMap \cup {key} |->
                       IF k = key THEN Len(objs) ELSE ladder.entryMap[k]]]

\* Ladder.addPlayer: the ladder after the call; the new entry is the last
\* of originalEntries.
addPlayer(ladder, name) ==
  LET objs == Append(ladder.originalEntries, getDefaultEntry(name))
      ref == Len(objs)
      key == normalize(name)
  IN  [originalEntries |-> objs,
       entries |-> sortEntries(objs, Append(ladder.entries, ref)),
       entryMap |-> [k \in DOMAIN ladder.entryMap \cup {key} |->
                       IF k = key THEN ref ELSE ladder.entryMap[k]]]

\* A resolution that never looks the name up.
resolvedWithoutLookup(ladder, name) == addPlayer(ladder, name)

\* this.getEntry(name) ?? this.addPlayer(name): the ladder afterwards.
resolved(ladder, name) ==
  IF getEntry(ladder, name) # 0 THEN ladder ELSE addPlayer(ladder, name)

\* An update that gives the loser one point less than it takes.
loserRatingOffByOne(oldLoserRating, scoreChange) == oldLoserRating - scoreChange + 1

\* The value handed to loser.setRating.
loserRatingAfter(oldLoserRating, scoreChange) == oldLoserRating - scoreChange

\* A counter that is never advanced.
gamesPlayedUnchanged(gamesPlayed) == gamesPlayed

\* A counter that is advanced by two.
gamesPlayedAfterTwo(gamesPlayed) == gamesPlayed + 2

\* entry.gamesPlayed += 1
gamesPlayedAfter(gamesPlayed) == gamesPlayed + 1

\* An update that gives the winner one point more than the loser loses.
winnerRatingOffByOne(oldWinnerRating, scoreChange) == oldWinnerRating + scoreChange + 1

\* The value handed to winner.setRating.
winnerRatingAfter(oldWinnerRating, scoreChange) == oldWinnerRating + scoreChange

\* WotrLadder.processReport: the ladder and the report afterwards, or Thrown.
processReport(ladder0, report) ==
  LET ladder1 == resolved(ladder0, report.row.winner.v)
      winner == getEntry(ladder1, report.row.winner.v)
      ladder2 == resolved(ladder1, report.row.loser.v)
      loser == getEntry(ladder2, report.row.loser.v)
      objs == ladder2.originalEntries
      oldWinnerGamesPlayed == objs[winner].gamesPlayed.v
      oldWinnerRank == getRank(ladder2, objs[winner].name)
      oldWinnerRating == getRating(objs[winner], winningSide(report))
      oldLoserGamesPlayed == objs[loser].gamesPlayed.v
      oldLoserRank == getRank(ladder2, objs[loser].name)
      oldLoserRating == getRating(objs[loser], losingSide(report))
      scoreChange == computeEloDiff(oldWinnerRating, oldLoserRating)
      objs1 == [objs EXCEPT ![winner] =
                  setRating(@, winningSide(report),
                            winnerRatingAfter(oldWinnerRating, scoreChange.v))]
      objs2 == [objs1 EXCEPT ![loser] =
                  setRating(@, losingSide(report),
                            loserRatingAfter(oldLoserRating, scoreChange.v))]
      objs3 == [objs2 EXCEPT ![winner].gamesPlayed = Num(gamesPlayedAfter(@.v))]
      objs4 == [objs3 EXCEPT ![loser].gamesPlayed = Num(gamesPlayedAfter(@.v))]
      newWinnerRating == getRating(objs4[winner], winningSide(report))
      newLoserRating == getRating(objs4[loser], losingSide(report))
  IN  IF ~scoreChange.ok THEN Thrown
      ELSE Ok([ladder |-> [originalEntries |-> objs4,
                           entries |-> sortEntries(objs4, ladder2.entries),
                           entryMap |-> ladder2.entryMap],
               report |-> [report EXCEPT !.annotation =
                             <<oldWinnerGamesPlayed, oldWinnerRank, oldWinnerRating,
                               newWinnerRating, oldLoserGamesPlayed, oldLoserRank,
                               oldLoserRating, newLoserRating>>]])


-----------------------------------------------------------------------------
(* The sheets (sheets.ts).  A sheet is the sequence of its rows below the  *)
(* header; every write call is also appended to writes.                    *)

defaultBatchSize == 25

Write(sheet, op, values) == [sheet |-> sheet, op |-> op, values |-> values]

min(a, b) == IF a < b THEN a ELSE b

\* A lenient reading that falls back to the default for any other value.
getBatchSizeLenient(batchSizeValue) ==
  IF typeof(batchSizeValue) = "number" THEN Ok(batchSizeValue.v)
  ELSE Ok(defaultBatchSize)

\* UpdateSheet.getBatchSize
getBatchSize(batchSizeValue) ==
  IF isEmptyString(batchSizeValue) THEN Ok(defaultBatchSize)
  ELSE IF typeof(batchSizeValue) = "number" THEN Ok(batchSizeValue.v)
  ELSE Thrown

\* A blank sheet row read as a ladder row: every cell is ''.
BlankLadderRow ==
  [len |-> WOTR_LADDER_ROW_LENGTH, rank |-> EmptyString, name |-> EmptyString,
   rating |-> EmptyString, shadowRating |-> EmptyString,
   freeRating |-> EmptyString, gamesPlayed |-> EmptyString]

\* ladderValues.findIndex((row) => row[0] === ''), 0-based.  The range read
\* starts below the header and is getLastRow() rows long, so it always ends
\* with blank rows: a row with '' in column 1 is always found.
numPlayersOf(rows) ==
  IF \E k \in DOMAIN rows : isEmptyString(rows[k].rank)
    THEN (CHOOSE k \in DOMAIN rows :
            /\ isEmptyString(rows[k].rank)
            /\ \A h \in 1..(k - 1) : ~isEmptyString(rows[h].rank)) - 1
    ELSE Len(rows)

\* Sheet sort by the timestamp column, descending; rows with equal
\* timestamps keep their order.
RECURSIVE insertByTimestamp(_, _)
insertByTimestamp(sorted, r) ==
  IF sorted = <<>> THEN <<r>>
  ELSE IF r.row.timestamp.v > Head(sorted).row.timestamp.v THEN <<r>> \o sorted
  ELSE <<Head(sorted)>> \o insertByTimestamp(Tail(sorted), r)

RECURSIVE sortByTimestampFrom(_, _)
sortByTimestampFrom(sorted, rest) ==
  IF rest = <<>> THEN sorted
  ELSE sortByTimestampFrom(insertByTimestamp(sorted, Head(rest)), Tail(rest))

sortByTimestamp(rows) == sortByTimestampFrom(<<>>, rows)

\* The rows a report sheet holds for the reports written to it.
reportRows(rs) == [k \in DOMAIN rs |-> rs[k].row]
annotations(rs) == [k \in DOMAIN rs |-> rs[k].annotation]

\* Column 30 of the ladder sheet ("Active rating") is a sheet formula; it is
\* taken to order players as the in-memory sort does, rows without numeric
\* ratings last.
activeRating(row) ==
  IF typeof(row.shadowRating) = "number" /\ typeof(row.freeRating) = "number"
    THEN row.shadowRating.v + row.freeRating.v
    ELSE -1

RECURSIVE insertByActiveRating(_, _)
insertByActiveRating(sorted, r) ==
  IF sorted = <<>> THEN <<r>>
  ELSE IF activeRating(r) > activeRating(Head(sorted)) THEN <<r>> \o sorted
  ELSE <<Head(sorted)>> \o insertByActiveRating(Tail(sorted), r)

RECURSIVE sortByActiveRatingFrom(_, _)
sortByActiveRatingFrom(sorted, rest) ==
  IF rest = <<>> THEN sorted
  ELSE sortByActiveRatingFrom(insertByActiveRating(sorted, Head(rest)), Tail(rest))

\* A sort whose range starts at column 1: the rank cells move with the rows.
sortLadderRangeFromRank(rows, entryCount) ==
  LET sorted == sortByActiveRatingFrom(<<>>, SubSeq(rows, 1, entryCount))
  IN  [k \in DOMAIN rows |-> IF k <= entryCount THEN sorted[k] ELSE rows[k]]

\* sortRange.sort: the first entryCount rows are sorted from column 2 on;
\* column 1 (rank) stays where it is.
sortLadderRange(rows, entryCount) ==
  LET sorted == sortByActiveRatingFrom(<<>>, SubSeq(rows, 1, entryCount))
  IN  [k \in DOMAIN rows |->
         IF k <= entryCount THEN [sorted[k] EXCEPT !.rank = rows[k].rank]
         ELSE rows[k]]

\* insertRowsAfter + copyTo(PASTE_FORMULA): the new rows take the formula
\* cells (rank, rating) of the last player row, their other cells are blank.
newPlayerRow(lastEntryRow) ==
  [BlankLadderRow EXCEPT !.rank = lastEntryRow.rank, !.rating = lastEntryRow.rating]

insertRowsAfter(rows, afterPosition, howMany) ==
  SubSeq(rows, 1, afterPosition)
    \o [k \in 1..howMany |-> newPlayerRow(rows[afterPosition])]
    \o SubSeq(rows, afterPosition + 1, Len(rows))

\* A write-back whose rating range is one column short: games played are
\* left as stored.
writeEntryCellsTwoColumns(rows, objs) ==
  [k \in DOMAIN rows |->
     IF k <= Len(objs)
       THEN [rows[k] EXCEPT !.name = Str(objs[k].name),
                            !.shadowRating = objs[k].shadowRating,
                            !.freeRating = objs[k].freeRating]
       ELSE rows[k]]

\* nameRange.setValues and ratingsRange.setValues over the first rows.
writeEntryCells(rows, objs) ==
  [k \in DOMAIN rows |->
     IF k <= Len(objs)
       THEN [rows[k] EXCEPT !.name = Str(objs[k].name),
                            !.shadowRating = objs[k].shadowRating,
                            !.freeRating = objs[k].freeRating,
                            !.gamesPlayed = objs[k].gamesPlayed]
       ELSE rows[k]]

\* A deletion that runs through the last row.
deleteRowsThroughLast(rows, howMany) == SubSeq(rows, Len(rows) + 1, Len(rows))

\* deleteRows(HEADERS + 1, howMany): the data rows left.
deleteRows(rows, howMany) == SubSeq(rows, min(howMany, Len(rows)) + 1, Len(rows))

-----------------------------------------------------------------------------
(* Inputs of the model.                                                    *)

Alice == <<"A", "l", "i", "c", "e">>
AliceLower == <<"a", "l", "i", "c", "e">>
Bob == <<"B", "o", "b">>
CarolPadded == <<" ", "C", "a", "r", "o", "l", " ">>
Carol == <<"C", "a", "r", "o", "l">>
Dave == <<"D", "a", "v", "e">>

Game(winner, loser, victory, competitive) ==
  [len |-> WOTR_REPORT_ROW_LENGTH, timestamp |-> Date(0), winner |-> Str(winner),
   loser |-> Str(loser), victory |-> Str(victory),
   competitive |-> Str(competitive), others |-> TRUE]

\* The rows a form response may hold; the last one is malformed.
GamePool ==
  { Game(Alice, Bob, "Shadow Forces Military", "Ladder"),
    Game(CarolPadded, Alice, "Free People Ring", "Ladder and tournament"),
    Game(Dave, Bob, "Shadow Forces Corruption", "Friendly"),
    Game(AliceLower, Bob, "Conceded SP won", "Ladder but I cannot remember the stats"),
    Game(Bob, Alice, "Free People Military", "Ladder"),
    Game(Bob, Alice, "Conceded FP won", "Ranked") }

\* Form responses are appended as they arrive: row k carries timestamp k.
Stamped(games) == [k \in DOMAIN games |-> [games[k] EXCEPT !.timestamp = Date(k)]]

PendingSheets ==
  UNION {{Stamped(games) : games \in [1..n -> GamePool]} : n \in 0..MaxPending}

Player(rank, name, shadowRating, freeRating, gamesPlayed) ==
  [len |-> WOTR_LADDER_ROW_LENGTH, rank |-> Num(rank), name |-> Str(name),
   rating |-> Num((shadowRating + freeRating) \div 2),
   shadowRating |-> Num(shadowRating), freeRating |-> Num(freeRating),
   gamesPlayed |-> Num(gamesPlayed)]

Divider(rank) ==
  [len |-> WOTR_LADDER_ROW_LENGTH, rank |-> Num(rank), name |-> Str(NOT_ACTIVE_PLAYERS),
   rating |-> Num(0), shadowRating |-> EmptyString, freeRating |-> EmptyString,
   gamesPlayed |-> EmptyString]

Footer == [BlankLadderRow EXCEPT !.name = Str(<<"*">>)]

\* The stored ladders: two players; two players far apart; an active player,
\* the divider and an inactive player above a footer; a malformed row.
LadderPool ==
  { <<Player(1, Alice, 520, 480, 3), Player(2, Bob, 480, 500, 5)>>,
    <<Player(1, Alice, 760, 700, 9), Player(2, Bob, 300, 310, 1)>>,
    <<Player(1, Alice, 520, 480, 3), Divider(2), Player(3, Bob, 480, 500, 5), Footer>>,
    <<Player(1, Alice, 520, 480, 3),
      [Player(2, Bob, 480, 500, 5) EXCEPT !.shadowRating = EmptyString]>> }

\* Cell C21: empty, a number, or text.
BatchSizeCells ==
  {EmptyString, Str(<<"t", "e", "n">>)} \cup {Num(b) : b \in 0..MaxBatch}

\* A report processed by an earlier batch.
OldReport ==
  [row |-> Game(Bob, Alice, "Free People Ring", "Ladder"),
   annotation |-> <<4, 2, 484, 500, 2, 1, 536, 520>>]

\* No direct call on a Ladder yet.
NoCall == [op |-> "none", name |-> <<>>, result |-> 0]

-----------------------------------------------------------------------------
(* updateWotrLadder (update.ts), one action per call it makes.             *)

Init ==
  /\ c21 \in BatchSizeCells
  /\ responseSheet \in PendingSheets
  /\ ladderSheet \in LadderPool
  /\ reportSheet = <<OldReport>>
  /\ reportSheetWithoutStats = <<>>
  /\ writes = <<>>
  /\ pc = "getBatchSize"
  /\ batchSize = 0
  /\ reports = <<>>
  /\ next = 1
  /\ originalPlayerCount = 0
  /\ originalEntries = <<>>
  /\ entries = <<>>
  /\ entryMap = <<>>
  /\ eloIn = <<0, 0>>
  /\ eloOut = Thrown
  /\ called = NoCall
  /\ started = [ladder |-> ladderSheet, responses |-> responseSheet]
  /\ restarts = 0

\* An order of calls that writes the report sheets before the ladder is read.
stageAfterReportsFirst(stage) ==
  CASE stage = "getBatchSize" -> "readResponses"
    [] stage = "readResponses" -> "updateReports"
    [] stage = "updateReports" -> "updateReportsWithoutStats"
    [] stage = "updateReportsWithoutStats" -> "readLadder"
    [] stage = "readLadder" -> "process"
    [] stage = "process" -> "prepareNewPlayerRows"
    [] stage = "prepareNewPlayerRows" -> "writeLadderEntries"
    [] stage = "writeLadderEntries" -> "deleteResponses"
    [] stage = "deleteResponses" -> "done"

\* An order of calls that retires the pending rows before anything is written.
stageAfterDeleteFirst(stage) ==
  CASE stage = "getBatchSize" -> "readResponses"
    [] stage = "readResponses" -> "readLadder"
    [] stage = "readLadder" -> "process"
    [] stage = "process" -> "deleteResponses"
    [] stage = "deleteResponses" -> "updateReports"
    [] stage = "updateReports" -> "updateReportsWithoutStats"
    [] stage = "updateReportsWithoutStats" -> "prepareNewPlayerRows"
    [] stage = "prepareNewPlayerRows" -> "writeLadderEntries"
    [] stage = "writeLadderEntries" -> "done"

\* The order of the calls of updateWotrLadder.
stageAfter(stage) ==
  CASE stage = "getBatchSize" -> "readResponses"
    [] stage = "readResponses" -> "readLadder"
    [] stage = "readLadder" -> "process"
    [] stage = "process" -> "updateReports"
    [] stage = "updateReports" -> "updateReportsWithoutStats"
    [] stage = "updateReportsWithoutStats" -> "prepareNewPlayerRows"
    [] stage = "prepareNewPlayerRows" -> "writeLadderEntries"
    [] stage = "writeLadderEntries" -> "deleteResponses"
    [] stage = "deleteResponses" -> "done"

\* The position after a call returns; the forEach over no report (left) is
\* passed at once.
returnFrom(stage, reps, nxt) ==
  IF stageAfter(stage) = "process" /\ nxt > Len(reps)
    THEN stageAfter("process")
    ELSE stageAfter(stage)

store == <<c21, responseSheet, ladderSheet, reportSheet, reportSheetWithoutStats, writes>>
ladderVars == <<originalEntries, entries, entryMap>>
eloVars == <<eloIn, eloOut, called>>
runVars == <<started, restarts>>

\* new WotrFormResponseSheet(updateSheet.getBatchSize())
GetBatchSize ==
  /\ pc = "getBatchSize"
  /\ IF getBatchSize(c21).ok
       THEN batchSize' = getBatchSize(c21).v /\ pc' = returnFrom(pc, reports, next)
       ELSE batchSize' = batchSize /\ pc' = "failed"
  /\ UNCHANGED <<store, reports, next, originalPlayerCount, ladderVars, eloVars, runVars>>

\* responseSheet.readResponses().map((row) => new WotrReport(row))
ReadResponses ==
  /\ pc = "readResponses"
  /\ LET numReports == Len(responseSheet)
         clamped == IF batchSize # 0 /\ numReports # 0 /\ numReports < batchSize
                      THEN numReports ELSE batchSize
     IN  \E parsed \in {IF batchSize = 0 \/ numReports = 0 THEN Ok(<<>>)
                          ELSE parseAllReports(SubSeq(responseSheet, 1, clamped))} :
         /\ batchSize' = clamped
         /\ IF parsed.ok
              THEN /\ reports' = [k \in DOMAIN parsed.v |-> WotrReport(parsed.v[k])]
                   /\ pc' = returnFrom(pc, reports', next)
              ELSE /\ reports' = reports
                   /\ pc' = "failed"
  /\ UNCHANGED <<store, next, originalPlayerCount, ladderVars, eloVars, runVars>>

\* ladderSheet.readLadder().map(...), originalPlayerCount, new WotrLadder(...)
ReadLadder ==
  /\ pc = "readLadder"
  /\ \E parsed \in {parseAllLadderRows(SubSeq(ladderSheet, 1, numPlayersOf(ladderSheet)))} :
         IF parsed.ok
           THEN \E ladder \in {Ladder([k \in DOMAIN parsed.v |-> WotrLadderEntry(parsed.v[k])])} :
                /\ originalPlayerCount' = Len(parsed.v)
                /\ originalEntries' = ladder.originalEntries
                /\ entries' = ladder.entries
                /\ entryMap' = ladder.entryMap
                /\ pc' = returnFrom(pc, reports, next)
           ELSE /\ UNCHANGED <<originalPlayerCount, ladderVars>>
                /\ pc' = "failed"
  /\ UNCHANGED <<store, batchSize, reports, next, eloVars, runVars>>

\* The forEach goes on with the next report, or is left after the last.
afterReport == IF next < Len(reports) THEN "process" ELSE stageAfter("process")

\* One report that passes the filter: ladder.processReport(report)
ProcessReport ==
  /\ pc = "process"
  /\ isLadderGame(reports[next])
  /\ LET ladder == [originalEntries |-> originalEntries, entries |-> entries,
                    entryMap |-> entryMap]
     IN  \E result \in {processReport(ladder, reports[next])} :
         IF result.ok
           THEN /\ originalEntries' = result.v.ladder.originalEntries
                /\ entries' = result.v.ladder.entries
                /\ entryMap' = result.v.ladder.entryMap
                /\ reports' = [reports EXCEPT ![next] = result.v.report]
                /\ next' = next + 1
                /\ pc' = afterReport
           ELSE /\ UNCHANGED <<ladderVars, reports, next>>
                /\ pc' = "failed"
  /\ UNCHANGED <<store, batchSize, originalPlayerCount, eloVars, runVars>>

\* One report that .filter((report) => report.isLadderGame()) drops.
SkipReport ==
  /\ pc = "process"
  /\ ~isLadderGame(reports[next])
  /\ next' = next + 1
  /\ pc' = afterReport
  /\ UNCHANGED <<store, batchSize, reports, originalPlayerCount, ladderVars, eloVars, runVars>>

\* reportSheet.updateReports(reports.filter((report) => report.hasStats()))
UpdateReports ==
  /\ pc = "updateReports"
  /\ LET sheet == "WotR Reports"
     IN  \E rs \in {SelectSeq(reports, hasStats)} :
         IF rs = <<>>
           THEN UNCHANGED <<reportSheet, writes>>
           ELSE /\ reportSheet' = sortByTimestamp(rs \o reportSheet)
                /\ writes' = writes \o
                     << Write(sheet, "insertRowsBefore", Len(rs)),
                        Write(sheet, "copyTo", Len(rs)),
                        Write(sheet, "setValues", reportRows(rs)),
                        Write(sheet, "setValues", annotations(rs)),
                        Write(sheet, "sort", 0) >>
  /\ pc' = returnFrom(pc, reports, next)
  /\ UNCHANGED <<c21, responseSheet, ladderSheet, reportSheetWithoutStats, batchSize,
                 reports, next, originalPlayerCount, ladderVars, eloVars, runVars>>

\* reportSheetWithoutStats.updateReports(reports.filter((report) => !report.hasStats()))
UpdateReportsWithoutStats ==
  /\ pc = "updateReportsWithoutStats"
  /\ LET sheet == "Ladder Games with no stats"
     IN  \E rs \in {SelectSeq(reports, LAMBDA r : ~hasStats(r))} :
         IF rs = <<>>
           THEN UNCHANGED <<reportSheetWithoutStats, writes>>
           ELSE /\ reportSheetWithoutStats' =
                     sortByTimestamp([k \in DOMAIN rs |-> [row |-> rs[k].row]]
                                       \o reportSheetWithoutStats)
                /\ writes' = writes \o
                     << Write(sheet, "insertRowsBefore", Len(rs)),
                        Write(sheet, "setValues", reportRows(rs)),
                        Write(sheet, "sort", 0) >>
  /\ pc' = returnFrom(pc, reports, next)
  /\ UNCHANGED <<c21, responseSheet, ladderSheet, reportSheet, batchSize,
                 reports, next, originalPlayerCount, ladderVars, eloVars, runVars>>

\* ladderSheet.prepareNewPlayerRows(originalPlayerCount, newPlayerCount)
PrepareNewPlayerRows ==
  /\ pc = "prepareNewPlayerRows"
  /\ LET newPlayerCount == Len(originalEntries) - originalPlayerCount
         sheet == "WOTR ladder"
     IN  IF newPlayerCount = 0
           THEN UNCHANGED <<ladderSheet, writes>>
           ELSE /\ ladderSheet' = insertRowsAfter(ladderSheet, originalPlayerCount,
                                                  newPlayerCount)
                /\ writes' = writes \o
                     << Write(sheet, "insertRowsAfter", newPlayerCount),
                        Write(sheet, "copyTo", newPlayerCount) >>
  /\ pc' = returnFrom(pc, reports, next)
  /\ UNCHANGED <<c21, responseSheet, reportSheet, reportSheetWithoutStats, batchSize,
                 reports, next, originalPlayerCount, ladderVars, eloVars, runVars>>

\* ladderSheet.writeLadderEntries(ladder)
WriteLadderEntries ==
  /\ pc = "writeLadderEntries"
  /\ LET entryCount == Len(originalEntries)
         sheet == "WOTR ladder"
     IN  /\ ladderSheet' = sortLadderRange(writeEntryCells(ladderSheet, originalEntries),
                                           entryCount)
         /\ writes' = writes \o
              << Write(sheet, "setValues",
                       [k \in DOMAIN originalEntries |-> originalEntries[k].name]),
                 Write(sheet, "setValues",
                       [k \in DOMAIN originalEntries |->
                          <<originalEntries[k].shadowRating,
                            originalEntries[k].freeRating,
                            originalEntries[k].gamesPlayed>>]),
                 Write(sheet, "sort", entryCount) >>
  /\ pc' = returnFrom(pc, reports, next)
  /\ UNCHANGED <<c21, responseSheet, reportSheet, reportSheetWithoutStats, batchSize,
                 reports, next, originalPlayerCount, ladderVars, eloVars, runVars>>

\* responseSheet.deleteResponses()
DeleteResponses ==
  /\ pc = "deleteResponses"
  /\ IF batchSize = 0
       THEN UNCHANGED <<responseSheet, writes>>
       ELSE /\ responseSheet' = deleteRows(responseSheet, batchSize)
            /\ writes' = Append(writes, Write("wotr form response", "deleteRows", batchSize))
  /\ pc' = returnFrom(pc, reports, next)
  /\ UNCHANGED <<c21, ladderSheet, reportSheet, reportSheetWithoutStats, batchSize,
                 reports, next, originalPlayerCount, ladderVars, eloVars, runVars>>

Next ==
  \/ GetBatchSize
  \/ ReadResponses
  \/ ReadLadder
  \/ ProcessReport
  \/ SkipReport
  \/ UpdateReports
  \/ UpdateReportsWithoutStats
  \/ PrepareNewPlayerRows
  \/ WriteLadderEntries
  \/ DeleteResponses

Spec == Init /\ [][Next]_vars

-----------------------------------------------------------------------------
(* A run that is aborted between two of its write calls (the script's       *)
(* execution is cut off) and started again from the top: the sheets keep    *)
(* what was written, the locals of updateWotrLadder are lost.               *)

Interrupt ==
  /\ pc \in {"updateReportsWithoutStats", "prepareNewPlayerRows",
             "writeLadderEntries", "deleteResponses"}
  /\ writes # <<>>
  /\ restarts < MaxRestarts
  /\ restarts' = restarts + 1
  /\ pc' = "getBatchSize"
  /\ batchSize' = 0
  /\ reports' = <<>>
  /\ next' = 1
  /\ originalPlayerCount' = 0
  /\ originalEntries' = <<>>
  /\ entries' = <<>>
  /\ entryMap' = <<>>
  /\ UNCHANGED <<store, eloVars, started>>

NextRerun == Next \/ Interrupt

SpecRerun == Init /\ [][NextRerun]_vars

-----------------------------------------------------------------------------
(* The rating engine on its own: computeEloDiff on every pair of ratings.  *)

InitElo ==
  /\ eloIn \in (0..MaxRating) \X (0..MaxRating)
  /\ eloOut = Thrown
  /\ pc = "computeEloDiff"
  /\ c21 = EmptyString
  /\ responseSheet = <<>>
  /\ ladderSheet = <<>>
  /\ reportSheet = <<>>
  /\ reportSheetWithoutStats = <<>>
  /\ writes = <<>>
  /\ batchSize = 0
  /\ reports = <<>>
  /\ next = 1
  /\ originalPlayerCount = 0
  /\ originalEntries = <<>>
  /\ entries = <<>>
  /\ entryMap = <<>>
  /\ called = NoCall
  /\ started = [ladder |-> <<>>, responses |-> <<>>]
  /\ restarts = 0

ComputeEloDiff ==
  /\ pc = "computeEloDiff"
  /\ eloOut' = computeEloDiff(eloIn[1], eloIn[2])
  /\ pc' = "returned"
  /\ UNCHANGED <<store, batchSize, reports, next, originalPlayerCount, ladderVars, eloIn, called, runVars>>

NextElo == ComputeEloDiff

SpecElo == InitElo /\ [][NextElo]_vars


\* The ladder held by the variables.
theLadder == [originalEntries |-> originalEntries, entries |-> entries,
              entryMap |-> entryMap]

-----------------------------------------------------------------------------
(* The Ladder class on its own: a WotrLadder constructed from a loaded row  *)
(* list, then any addPlayer / processReport / getEntry / getRank calls.     *)

CarolLower == <<"c", "a", "r", "o", "l">>

\* The names handed to the calls: stored names, other letter case, padded.
NamePool == {Alice, AliceLower, Bob, Carol, CarolLower, CarolPadded, Dave}

\* The reports handed to processReport.
ReportPool ==
  { WotrReport(Game(AliceLower, Bob, "Shadow Forces Military", "Ladder")),
    WotrReport(Game(Carol, Alice, "Free People Ring", "Ladder")),
    WotrReport(Game(Carol, CarolLower, "Conceded SP won", "Ladder")),
    WotrReport(Game(Bob, CarolLower, "Free People Military", "Ladder")) }

\* A stored ladder in the order of its sheet, which is sorted by the
\* "Active rating" column and not by the average of the two side ratings:
\* Bob stands above Alice although Alice's average is higher.
SheetOrderedLadder == <<Player(1, Bob, 480, 500, 5), Player(2, Alice, 520, 480, 3)>>

\* The row lists of LadderPool, and of the sheet-ordered ladder, that
\* readLadder returns.
LoadedPool ==
  { parseAllLadderRows(SubSeq(sheet, 1, numPlayersOf(sheet))).v :
      sheet \in { s \in LadderPool \cup {SheetOrderedLadder} :
                    parseAllLadderRows(SubSeq(s, 1, numPlayersOf(s))).ok } }

InitLadder ==
  /\ pc = "ladder"
  /\ \E rows \in LoadedPool :
     \E ladder \in {Ladder([k \in DOMAIN rows |-> WotrLadderEntry(rows[k])])} :
       /\ originalPlayerCount = Len(rows)
       /\ originalEntries = ladder.originalEntries
       /\ entries = ladder.entries
       /\ entryMap = ladder.entryMap
  /\ next = 1
  /\ called = NoCall
  /\ c21 = EmptyString
  /\ responseSheet = <<>>
  /\ ladderSheet = <<>>
  /\ reportSheet = <<>>
  /\ reportSheetWithoutStats = <<>>
  /\ writes = <<>>
  /\ batchSize = 0
  /\ reports = <<>>
  /\ eloIn = <<0, 0>>
  /\ eloOut = Thrown
  /\ started = [ladder |-> [k \in DOMAIN originalEntries |-> originalEntries[k]],
                responses |-> <<>>]
  /\ restarts = 0

ladderFrame == <<store, pc, batchSize, reports, originalPlayerCount, eloIn, eloOut,
                 runVars>>

\* ladder.addPlayer(name)
AddPlayerCall ==
  /\ pc = "ladder"
  /\ next <= MaxCalls
  /\ \E name \in NamePool :
     \E ladder \in {addPlayer(theLadder, name)} :
       /\ originalEntries' = ladder.originalEntries
       /\ entries' = ladder.entries
       /\ entryMap' = ladder.entryMap
       /\ called' = [op |-> "addPlayer", name |-> name,
                     result |-> Len(ladder.originalEntries)]
  /\ next' = next + 1
  /\ UNCHANGED ladderFrame

\* ladder.processReport(report)
ProcessReportCall ==
  /\ pc = "ladder"
  /\ next <= MaxCalls
  /\ \E report \in ReportPool :
     \E result \in {processReport(theLadder, report)} :
       /\ result.ok
       /\ originalEntries' = result.v.ladder.originalEntries
       /\ entries' = result.v.ladder.entries
       /\ entryMap' = result.v.ladder.entryMap
       /\ called' = [op |-> "processReport", name |-> report.row.winner.v,
                     result |-> result.v.report]
  /\ next' = next + 1
  /\ UNCHANGED ladderFrame

\* ladder.getEntry(name)
GetEntryCall ==
  /\ pc = "ladder"
  /\ \E name \in NamePool :
       called' = [op |-> "getEntry", name |-> name, result |-> getEntry(theLadder, name)]
  /\ UNCHANGED <<ladderFrame, ladderVars, next>>

\* ladder.getRank(name)
GetRankCall ==
  /\ pc = "ladder"
  /\ \E name \in NamePool :
       called' = [op |-> "getRank", name |-> name, result |-> getRank(theLadder, name)]
  /\ UNCHANGED <<ladderFrame, ladderVars, next>>

NextLadder == AddPlayerCall \/ ProcessReportCall \/ GetEntryCall \/ GetRankCall

SpecLadder == InitLadder /\ [][NextLadder]_vars

-----------------------------------------------------------------------------
(* The card game ladder (objects.ts, types/cardGameTypes.ts).  A report    *)
(* keeps the four role slots, the competitive cell and the winner cell; an *)
(* entry keeps the name, the four role ratings, the games-played cells     *)
(* row[10..13] and the per-role counters row[15..22].                      *)

CardRoles == {"WitchKing", "Saruman", "Frodo", "Aragorn"}

CARD_COMPETITIVE == {chars("Friendly"), chars("Ladder")}

WINNER == {chars("FP"), chars("SP"), chars("Two Tower / Return of the King")}

\* parseCardReportRow on the cells the ladder reads: the slots are strings
\* and are trimmed, the two enumerated cells are checked.
parseCardReportRow(val) ==
  IF /\ \A role \in CardRoles : typeof(val[role]) = "string"
     /\ typeof(val.competitive) = "string" /\ val.competitive.v \in CARD_COMPETITIVE
     /\ typeof(val.victory) = "string" /\ val.victory.v \in WINNER
    THEN Ok([role \in CardRoles |-> trim(val[role].v)]
            @@ [competitive |-> val.competitive.v, victory |-> val.victory.v])
    ELSE Thrown

\* CardReport.constructor
CardReport(row) ==
  [row |-> row, competitive |-> row.competitive, victory |-> row.victory]

\* CardReport.isLadderGame
cardIsLadderGame(report) ==
  /\ startsWith(report.competitive, chars("Ladder"))
  /\ report.victory # chars("Two Tower / Return of the King")

\* CardReport.winningSide: the side, or Thrown.
cardWinningSide(report) ==
  IF report.victory = chars("FP") THEN Ok("Free")
  ELSE IF report.victory = chars("SP") THEN Ok("Shadow")
  ELSE Thrown

\* CardReport.losingSide
cardLosingSide(report) ==
  IF ~cardWinningSide(report).ok THEN Thrown
  ELSE IF cardWinningSide(report).v = "Free" THEN Ok("Shadow")
  ELSE Ok("Free")

\* CardReport.getPlayer
getPlayer(report, role) == report.row[role]

\* A count of the slots instead of the people in them.
playerCountOfSlots(report) == Cardinality(CardRoles)

\* CardReport.playerCount
playerCount(report) ==
  Cardinality({toLowerCase(report.row[role]) : role \in CardRoles})

\* The JavaScript values undefined and NaN of a counter cell.
Undefined == [t |-> "undefined"]
NaN == [t |-> "number", nan |-> TRUE]

\* cell += 1
plusOne(cell) ==
  IF cell = Undefined \/ cell = NaN THEN NaN ELSE Num(cell.v + 1)

\* CardLadderEntry.constructor on a parsed ladder row: a row read from the
\* sheet has 14 cells, so its per-role counter cells row[15..22] are
\* undefined.
CardLadderEntry(row) ==
  [name |-> row.name, rating |-> row.rating,
   gamesPlayed |-> row.gamesPlayed, gamesPlayed4 |-> row.gamesPlayed4,
   gamesPlayed3 |-> row.gamesPlayed3, gamesPlayed2 |-> row.gamesPlayed2,
   roleGames |-> [role \in CardRoles |-> Undefined],
   wins |-> [role \in CardRoles |-> Undefined]]

\* Four times avgRating(): the comparator only uses the sign of a difference.
cardAvgRatingTimes4(entry) ==
  entry.rating["WitchKing"] + entry.rating["Saruman"]
    + entry.rating["Frodo"] + entry.rating["Aragorn"]

\* CardLadderEntry.getRoleRating
getRoleRating(entry, role) == entry.rating[role]

\* CardLadderEntry.setRating
cardSetRating(entry, role, value) == [entry EXCEPT !.rating[role] = value]

\* CardLadderEntry.incrementTotalGameCount: the entry afterwards, or Thrown.
incrementTotalGameCount(entry, count) ==
  IF count = 4
    THEN Ok([entry EXCEPT !.gamesPlayed = @ + 1, !.gamesPlayed4 = @ + 1])
  ELSE IF count = 3
    THEN Ok([entry EXCEPT !.gamesPlayed = @ + 1, !.gamesPlayed3 = @ + 1])
  ELSE IF count = 2
    THEN Ok([entry EXCEPT !.gamesPlayed = @ + 1, !.gamesPlayed2 = @ + 1])
  ELSE Thrown

\* CardLadderEntry.incrementRoleGameCount
incrementRoleGameCount(entry, role) ==
  [entry EXCEPT !.roleGames[role] = plusOne(@)]

\* CardLadderEntry.incrementWinCount
incrementWinCount(entry, role) == [entry EXCEPT !.wins[role] = plusOne(@)]

\* CardLadder.getDefaultEntry
cardGetDefaultEntry(name) ==
  [name |-> name, rating |-> [role \in CardRoles |-> DEFAULT_RATING],
   gamesPlayed |-> 0, gamesPlayed4 |-> 0, gamesPlayed3 |-> 0, gamesPlayed2 |-> 0,
   roleGames |-> [role \in CardRoles |-> Num(0)],
   wins |-> [role \in CardRoles |-> Num(0)]]

RECURSIVE cardInsertSorted(_, _, _)
cardInsertSorted(objs, sorted, ref) ==
  IF sorted = <<>> THEN <<ref>>
  ELSE IF cardAvgRatingTimes4(objs[ref]) > cardAvgRatingTimes4(objs[Head(sorted)])
    THEN <<ref>> \o sorted
  ELSE <<Head(sorted)>> \o cardInsertSorted(objs, Tail(sorted), ref)

RECURSIVE cardSortFrom(_, _, _)
cardSortFrom(objs, sorted, rest) ==
  IF rest = <<>> THEN sorted
  ELSE cardSortFrom(objs, cardInsertSorted(objs, sorted, Head(rest)), Tail(rest))

\* this.entries.sort((a, b) => b.avgRating() - a.avgRating()) on card entries.
cardSortEntries(objs, refs) == cardSortFrom(objs, <<>>, refs)

\* Ladder.addPlayer of a CardLadder.
cardAddPlayer(ladder, name) ==
  LET objs == Append(ladder.originalEntries, cardGetDefaultEntry(name))
      ref == Len(objs)
      key == normalize(name)
  IN  [originalEntries |-> objs,
       entries |-> cardSortEntries(objs, Append(ladder.entries, ref)),
       entryMap |-> [k \in DOMAIN ladder.entryMap \cup {key} |->
                       IF k = key THEN ref ELSE ladder.entryMap[k]]]

\* this.getEntry(name) ?? this.addPlayer(name) of a CardLadder.
cardResolved(ladder, name) ==
  IF getEntry(ladder, name) # 0 THEN ladder ELSE cardAddPlayer(ladder, name)

\* computeEloDiff on two team ratings given as twice their value (a team
\* rating is half a sum of two ratings): scoreDiff <= partitions[i] holds
\* for a half-integer scoreDiff exactly when its ceiling is <= partitions[i].
computeEloDiffOfHalves(winnerTwice, loserTwice) ==
  LET scoreAdjustments ==
        IF winnerTwice < loserTwice THEN WINNER_LOWER ELSE WINNER_HIGHER
      scoreDiffTwice == abs(winnerTwice - loserTwice)
  IN  getPartitionedValue((scoreDiffTwice + 1) \div 2, SCORE_BUCKETS,
                          scoreAdjustments)

\* A side guard that never finds the two players of a side to be the same.
secondOfSideAlwaysCounted(objs, first, second) == TRUE

\* this.normalize(first.name) !== this.normalize(second.name)
secondOfSideCounted(objs, first, second) ==
  normalize(objs[first].name) # normalize(objs[second].name)

\* entry.incrementTotalGameCount(playerCount) on the object ref, for a
\* player count the switch accepts.
totalGameCounted(objs, ref, count) ==
  [objs EXCEPT ![ref] = incrementTotalGameCount(@, count).v]

\* The roles in the order processReport resolves them: winningRole1,
\* winningRole2, losingRole1, losingRole2.
cardRoleOrder(report) ==
  IF cardWinningSide(report).v = "Shadow"
    THEN <<"WitchKing", "Saruman", "Frodo", "Aragorn">>
    ELSE <<"Frodo", "Aragorn", "WitchKing", "Saruman">>

\* The four getEntry(...) ?? addPlayer(...) of processReport: the ladder
\* after them.
cardResolvedAll(ladder0, report) ==
  cardResolved(
    cardResolved(
      cardResolved(
        cardResolved(ladder0, getPlayer(report, cardRoleOrder(report)[1])),
        getPlayer(report, cardRoleOrder(report)[2])),
      getPlayer(report, cardRoleOrder(report)[3])),
    getPlayer(report, cardRoleOrder(report)[4]))

\* The counting part of processReport on rated entries, for a player count
\* that incrementTotalGameCount accepts: every call gets the same
\* playerCount, so the call on winner1 is the only one that can throw.
cardCounted(won1, report, winner1, winner2, loser1, loser2) ==
  LET roles == cardRoleOrder(report)
      count == playerCount(report)
      counted1 == totalGameCounted(won1, winner1, count)
      won2 == [counted1 EXCEPT ![winner2] =
                 incrementRoleGameCount(incrementWinCount(@, roles[2]), roles[2])]
      counted2 == IF secondOfSideCounted(counted1, winner1, winner2)
                    THEN totalGameCounted(won2, winner2, count) ELSE won2
      lost1 == [counted2 EXCEPT ![loser1] = incrementRoleGameCount(@, roles[3])]
      counted3 == totalGameCounted(lost1, loser1, count)
      lost2 == [counted3 EXCEPT ![loser2] = incrementRoleGameCount(@, roles[4])]
  IN  IF secondOfSideCounted(won1, loser1, loser2)
        THEN totalGameCounted(lost2, loser2, count) ELSE lost2

\* processReport after the four resolutions.
cardProcessResolved(ladder4, report) ==
  LET roles == cardRoleOrder(report)
      winner1 == getEntry(ladder4, getPlayer(report, roles[1]))
      winner2 == getEntry(ladder4, getPlayer(report, roles[2]))
      loser1 == getEntry(ladder4, getPlayer(report, roles[3]))
      loser2 == getEntry(ladder4, getPlayer(report, roles[4]))
      objs == ladder4.originalEntries
      winner1Rating == getRoleRating(objs[winner1], roles[1])
      winner2Rating == getRoleRating(objs[winner2], roles[2])
      loser1Rating == getRoleRating(objs[loser1], roles[3])
      loser2Rating == getRoleRating(objs[loser2], roles[4])
      scoreChange == computeEloDiffOfHalves(winner1Rating + winner2Rating,
                                            loser1Rating + loser2Rating)
      rated == [[[[objs
                 EXCEPT ![winner1] =
                   cardSetRating(@, roles[1], winner1Rating + scoreChange.v)]
                 EXCEPT ![winner2] =
                   cardSetRating(@, roles[2], winner2Rating + scoreChange.v)]
                 EXCEPT ![loser1] =
                   cardSetRating(@, roles[3], loser1Rating - scoreChange.v)]
                 EXCEPT ![loser2] =
                   cardSetRating(@, roles[4], loser2Rating - scoreChange.v)]
      won1 == [rated EXCEPT ![winner1] =
                 incrementRoleGameCount(incrementWinCount(@, roles[1]), roles[1])]
  IN  IF ~scoreChange.ok
        THEN [ok |-> FALSE, ladder |-> ladder4, scoreChange |-> 0]
      ELSE IF ~incrementTotalGameCount(won1[winner1], playerCount(report)).ok
        THEN [ok |-> FALSE,
              ladder |-> [ladder4 EXCEPT !.originalEntries = won1],
              scoreChange |-> scoreChange.v]
      ELSE CHOOSE result \in
             { [ok |-> TRUE,
                ladder |-> [originalEntries |-> counted,
                            entries |-> cardSortEntries(counted, ladder4.entries),
                            entryMap |-> ladder4.entryMap],
                scoreChange |-> scoreChange.v] :
               counted \in {cardCounted(won1, report, winner1, winner2,
                                        loser1, loser2)} } : TRUE

\* CardLadder.processReport: ok, the ladder afterwards (as far as the call
\* got when it throws) and the logged scoreChange.
cardProcessReport(ladder0, report) ==
  IF ~cardWinningSide(report).ok
    THEN [ok |-> FALSE, ladder |-> ladder0, scoreChange |-> 0]
    ELSE CHOOSE result \in
           { cardProcessResolved(ladder4, report) :
               ladder4 \in {cardResolvedAll(ladder0, report)} } : TRUE

-----------------------------------------------------------------------------
(* The CardLadder class on its own: a CardLadder constructed from a loaded  *)
(* row list, then processReport calls with the ladder games of a batch, as  *)
(* updateCardLadder makes them.  A call that throws ends the run.           *)

\* The cells of a card form response that the ladder reads.
CardGame(witchKing, saruman, frodo, aragorn, competitive, victory) ==
  [WitchKing |-> Str(witchKing), Saruman |-> Str(saruman), Frodo |-> Str(frodo),
   Aragorn |-> Str(aragorn), competitive |-> Str(chars(competitive)),
   victory |-> Str(chars(victory))]

CardGamePool ==
  { CardGame(Alice, Bob, CarolPadded, Dave, "Ladder", "SP"),
    CardGame(Alice, Alice, Bob, Bob, "Ladder", "FP"),
    CardGame(Alice, AliceLower, Bob, CarolPadded, "Ladder", "SP"),
    CardGame(Bob, Dave, Alice, Alice, "Ladder", "SP"),
    CardGame(Alice, Alice, Alice, Bob, "Ladder", "SP"),
    CardGame(Alice, Bob, AliceLower, Dave, "Ladder", "FP"),
    CardGame(Alice, Alice, AliceLower, Alice, "Ladder", "FP"),
    CardGame(Dave, Dave, Dave, Dave, "Ladder", "SP"),
    CardGame(Alice, <<>>, Bob, <<>>, "Ladder", "FP"),
    CardGame(Alice, Bob, Carol, Dave, "Friendly", "FP"),
    CardGame(Alice, Bob, Carol, Dave, "Ladder", "Two Tower / Return of the King") }

\* reports.filter((report) => report.isLadderGame()) over the parsed pool.
CardReportPool ==
  { report \in { CardReport(parseCardReportRow(game).v) :
                  game \in {g \in CardGamePool : parseCardReportRow(g).ok} } :
      cardIsLadderGame(report) }

\* A parsed card ladder row.
CardPlayer(name, witchKing, saruman, frodo, aragorn, gamesPlayed4, gamesPlayed3, gamesPlayed2) ==
  [name |-> name,
   rating |-> [role \in CardRoles |->
                 IF role = "WitchKing" THEN witchKing
                 ELSE IF role = "Saruman" THEN saruman
                 ELSE IF role = "Frodo" THEN frodo ELSE aragorn],
   gamesPlayed |-> gamesPlayed4 + gamesPlayed3 + gamesPlayed2,
   gamesPlayed4 |-> gamesPlayed4, gamesPlayed3 |-> gamesPlayed3,
   gamesPlayed2 |-> gamesPlayed2]

\* The row lists that CardLadderSheet.readLadder returns.
CardLoadedPool ==
  { <<>>,
    << CardPlayer(Alice, 520, 480, 500, 510, 1, 0, 2),
       CardPlayer(Bob, 480, 500, 490, 471, 2, 1, 2) >>,
    << CardPlayer(Alice, 760, 700, 650, 720, 4, 2, 3),
       CardPlayer(Bob, 300, 310, 320, 305, 0, 0, 1),
       CardPlayer(Carol, 500, 500, 500, 500, 0, 0, 0) >> }

InitCard ==
  /\ pc = "card"
  /\ \E rows \in CardLoadedPool :
     \E ladder \in {Ladder([k \in DOMAIN rows |-> CardLadderEntry(rows[k])])} :
       /\ originalPlayerCount = Len(rows)
       /\ originalEntries = ladder.originalEntries
       /\ entries = ladder.entries
       /\ entryMap = ladder.entryMap
  /\ next = 1
  /\ called = NoCall
  /\ c21 = EmptyString
  /\ responseSheet = <<>>
  /\ ladderSheet = <<>>
  /\ reportSheet = <<>>
  /\ reportSheetWithoutStats = <<>>
  /\ writes = <<>>
  /\ batchSize = 0
  /\ reports = <<>>
  /\ eloIn = <<0, 0>>
  /\ eloOut = Thrown
  /\ started = [ladder |-> <<>>, responses |-> <<>>]
  /\ restarts = 0

\* ladder.processReport(report) of updateCardLadder.
CardProcessReportCall ==
  /\ pc = "card"
  /\ next <= MaxCalls
  /\ \E report \in CardReportPool :
     \E result \in {cardProcessReport(theLadder, report)} :
       /\ originalEntries' = result.ladder.originalEntries
       /\ entries' = result.ladder.entries
       /\ entryMap' = result.ladder.entryMap
       /\ called' = [op |-> "processReport", report |-> report,
                     ok |-> result.ok, scoreChange |-> result.scoreChange]
       /\ pc' = IF result.ok THEN "card" ELSE "failed"
  /\ next' = next + 1
  /\ UNCHANGED <<store, batchSize, reports, originalPlayerCount, eloIn, eloOut,
                 runVars>>

NextCard == CardProcessReportCall

SpecCard == InitCard /\ [][NextCard]_vars

-----------------------------------------------------------------------------
(* parseWotrLadderRow on its own: one row of the ladder sheet, drawn from   *)
(* cells of every kind the sheet can hand over, is given to the validator.  *)

\* The cells a rating or games-played column can hold.
LadderCellPool == {Num(0), Num(500), EmptyString, Str(<<"x">>)}

\* The rows handed to the validator.
LadderRowPool ==
  [len : {WOTR_LADDER_ROW_LENGTH - 1, WOTR_LADDER_ROW_LENGTH, WOTR_LADDER_ROW_LENGTH + 1},
   rank : {Num(1), Str(<<"x">>)},
   name : {Str(Alice), Str(CarolPadded), Str(NOT_ACTIVE_PLAYERS),
           Str(<<" ">> \o NOT_ACTIVE_PLAYERS), Num(7)},
   rating : {Num(500), EmptyString},
   shadowRating : LadderCellPool,
   freeRating : LadderCellPool,
   gamesPlayed : LadderCellPool]

InitParse ==
  /\ pc = "parse"
  /\ \E row \in LadderRowPool : ladderSheet = <<row>>
  /\ called = NoCall
  /\ c21 = EmptyString
  /\ responseSheet = <<>>
  /\ reportSheet = <<>>
  /\ reportSheetWithoutStats = <<>>
  /\ writes = <<>>
  /\ batchSize = 0
  /\ reports = <<>>
  /\ next = 1
  /\ originalPlayerCount = 0
  /\ originalEntries = <<>>
  /\ entries = <<>>
  /\ entryMap = <<>>
  /\ eloIn = <<0, 0>>
  /\ eloOut = Thrown
  /\ started = [ladder |-> <<>>, responses |-> <<>>]
  /\ restarts = 0

\* parseWotrLadderRow(row)
ParseWotrLadderRowCall ==
  /\ pc = "parse"
  /\ called' = [op |-> "parseWotrLadderRow", name |-> <<>>,
                result |-> parseWotrLadderRow(ladderSheet[1])]
  /\ pc' = "parsed"
  /\ UNCHANGED <<store, batchSize, reports, next, originalPlayerCount, ladderVars,
                 eloIn, eloOut, runVars>>

NextParse == ParseWotrLadderRowCall

SpecParse == InitParse /\ [][NextParse]_vars

-----------------------------------------------------------------------------
(* Properties.                                                             *)


\* A step that processes the ladder game reports[next] without throwing.
ProcessesReport ==
  pc = "process" /\ isLadderGame(reports[next]) /\ pc' # "failed"

\* The rating of the entry ref before the step; an entry created by the step
\* starts from the default rating.
ratingBefore(ref, side) ==
  IF ref <= Len(originalEntries) THEN getRating(originalEntries[ref], side)
  ELSE DEFAULT_RATING

\* C1: processing a report changes the winner's winning-side rating by
\* computeEloDiff(winnerBefore, loserBefore) and the loser's losing-side
\* rating by exactly the negative of that.
C1_ZeroSum ==
  [][ProcessesReport =>
       LET report == reports[next]
           winner == entryMap'[normalize(report.row.winner.v)]
           loser == entryMap'[normalize(report.row.loser.v)]
           winnerBefore == ratingBefore(winner, winningSide(report))
           loserBefore == ratingBefore(loser, losingSide(report))
           winnerAfter == getRating(originalEntries'[winner], winningSide(report))
           loserAfter == getRating(originalEntries'[loser], losingSide(report))
       IN  /\ winnerAfter - winnerBefore = -(loserAfter - loserBefore)
           /\ winnerAfter - winnerBefore = computeEloDiff(winnerBefore, loserBefore).v
     ]_vars

\* A processed report in which the lower-rated player won 17 points.
C1_Witness ==
  \E k \in DOMAIN reports :
    /\ k < next
    /\ reports[k].annotation[3] < reports[k].annotation[7]
    /\ reports[k].annotation[4] = reports[k].annotation[3] + 17
    /\ reports[k].annotation[8] = reports[k].annotation[7] - 17

\* The bucket bounds and step tables as the specification lists them.
C2_Bounds == <<10, 33, 56, 79, 102, 126, 151, 178, 207, 236, 270, 308, 352, 409, 499>>
C2_Index(diff) == Cardinality({j \in DOMAIN C2_Bounds : C2_Bounds[j] < diff})
C2_Expected(w, l) ==
  IF w < l THEN 16 + C2_Index(abs(w - l)) ELSE 16 - C2_Index(abs(w - l))

\* C2: computeEloDiff(w, l) is the entry of [16..31] (w < l) or [16..1]
\* (otherwise) at the first bucket whose bound is >= |w - l|.
C2_BucketLookup ==
  pc = "returned" => eloOut = Ok(C2_Expected(eloIn[1], eloIn[2]))

\* A call that lands in the unbounded bucket: a 500-point upset.
C2_Witness == pc = "returned" /\ eloIn = <<0, 500>> /\ eloOut = Ok(31)

\* The step of the scenario: the ladder holds Alice (520/480) and Bob
\* (480/500), and the report has Alice beating Bob on Shadow.
C3_Scenario ==
  /\ pc = "process"
  /\ isLadderGame(reports[next])
  /\ reports[next].row.winner.v = Alice
  /\ reports[next].row.loser.v = Bob
  /\ winningSide(reports[next]) = "Shadow"
  /\ \E a, b \in DOMAIN originalEntries :
       /\ originalEntries[a].name = Alice
       /\ originalEntries[a].shadowRating = Num(520)
       /\ originalEntries[a].freeRating = Num(480)
       /\ originalEntries[b].name = Bob
       /\ originalEntries[b].shadowRating = Num(480)
       /\ originalEntries[b].freeRating = Num(500)

\* The 1-based position of the entry named name in entries, 0 when the
\* entry is not in the ranked view.
C3_Rank(name) ==
  IF \E k \in DOMAIN entries : originalEntries[entries[k]].name = name
    THEN CHOOSE k \in DOMAIN entries : originalEntries[entries[k]].name = name
    ELSE 0

C3_After(bobFreeBefore, bobFreeAfter) ==
  \E a, b \in DOMAIN originalEntries :
    /\ originalEntries[a].name = Alice
    /\ originalEntries[b].name = Bob
    /\ originalEntries'[a].shadowRating = Num(535)
    /\ originalEntries'[b].freeRating = Num(bobFreeAfter)
    /\ originalEntries'[a].gamesPlayed.v = originalEntries[a].gamesPlayed.v + 1
    /\ originalEntries'[b].gamesPlayed.v = originalEntries[b].gamesPlayed.v + 1
    /\ reports'[next].annotation =
         << originalEntries[a].gamesPlayed.v, C3_Rank(Alice), 520, 535,
            originalEntries[b].gamesPlayed.v, C3_Rank(Bob), bobFreeBefore, bobFreeAfter >>

\* C3 as stated: the report ends with Bob.freeRating = 465 and the
\* annotation (oldAliceGames, oldAliceRank, 520, 535, oldBobGames,
\* oldBobRank, 480, 465).
C3_AsStated == [][C3_Scenario => C3_After(480, 465)]_vars

\* C3, amended: the delta is 15, computed from Alice's Shadow rating 520 and
\* Bob's Free rating 500; the report ends with Alice.shadowRating = 535,
\* Bob.freeRating = 485, both gamesPlayed increased by 1 and the annotation
\* (oldAliceGames, oldAliceRank, 520, 535, oldBobGames, oldBobRank, 500, 485).
C3_Amended == [][C3_Scenario => C3_After(500, 485)]_vars

\* The scenario has been processed on the stored ladder Alice (3 games,
\* rank 1), Bob (5 games, rank 2).
C3_Witness ==
  /\ next > 1
  /\ reports[1].annotation = <<3, 1, 520, 535, 5, 2, 500, 485>>
  /\ \E a \in DOMAIN originalEntries :
       originalEntries[a].name = Alice /\ originalEntries[a].shadowRating = Num(535)


\* The reported names absent from the ladder before the step.
C4_Roles == {"winner", "loser"}
C4_Name(report, role) ==
  IF role = "winner" THEN report.row.winner.v ELSE report.row.loser.v
C4_Side(report, role) ==
  IF role = "winner" THEN winningSide(report) ELSE losingSide(report)
C4_OtherSide(side) == IF side = "Shadow" THEN "Free" ELSE "Shadow"
C4_Absent(name) == normalize(name) \notin DOMAIN entryMap
C4_Created(name) ==
  {k \in (Len(originalEntries) + 1)..Len(originalEntries') :
     normalize(originalEntries'[k].name) = normalize(name)}

\* C4: a ladder report naming a player with no entry creates exactly one
\* entry for that name (500/500/0), reachable through originalEntries,
\* entries and entryMap, before the delta is computed: the annotation records
\* 0 games and rating 500 before, and the report is processed as usual.
C4_AutoCreate ==
  [][ProcessesReport =>
       LET report == reports[next]
           annotation == reports'[next].annotation
           missing == {role \in C4_Roles : C4_Absent(C4_Name(report, role))}
       IN  /\ Len(originalEntries') - Len(originalEntries)
                = Cardinality({normalize(C4_Name(report, role)) : role \in missing})
           /\ \A role \in missing :
                LET name == C4_Name(report, role)
                    side == C4_Side(report, role)
                    gamesBefore == IF role = "winner" THEN annotation[1] ELSE annotation[5]
                    before == IF role = "winner" THEN annotation[3] ELSE annotation[7]
                    after == IF role = "winner" THEN annotation[4] ELSE annotation[8]
                    change == computeEloDiff(annotation[3], annotation[7]).v
                IN  /\ Cardinality(C4_Created(name)) = 1
                    /\ \A k \in C4_Created(name) :
                         /\ originalEntries'[k].name = name
                         /\ \E h \in DOMAIN entries' : entries'[h] = k
                         /\ entryMap'[normalize(name)] = k
                         /\ getRating(originalEntries'[k], C4_OtherSide(side)) = DEFAULT_RATING
                         /\ getRating(originalEntries'[k], side) = after
                         /\ originalEntries'[k].gamesPlayed.v >= 1
                    /\ gamesBefore = 0
                    /\ before = DEFAULT_RATING
                    /\ after = IF role = "winner" THEN before + change ELSE before - change
     ]_vars

\* Carol, absent from every stored ladder, has won her first ladder game.
C4_Witness ==
  \E k \in DOMAIN reports, e \in DOMAIN originalEntries :
    /\ k < next
    /\ reports[k].row.winner.v = Carol
    /\ reports[k].annotation[1] = 0
    /\ reports[k].annotation[3] = DEFAULT_RATING
    /\ e > originalPlayerCount
    /\ originalEntries[e].name = Carol
    /\ originalEntries[e].gamesPlayed = Num(1)

C5_Friendly(report) == report.row.competitive.v = "Friendly"

C5_ReportsWritten ==
  pc \in {"updateReportsWithoutStats", "prepareNewPlayerRows", "writeLadderEntries",
          "deleteResponses", "done"}

\* C5: a 'Friendly' report changes no ladder entry and creates no player,
\* keeps the all-zero annotation, and is written to the report history with
\* that annotation.
C5_FriendlyExcluded ==
  /\ [][(pc = "process" /\ C5_Friendly(reports[next])) =>
          /\ UNCHANGED <<originalEntries, entries, entryMap>>
          /\ reports'[next].annotation = ZeroAnnotation
       ]_vars
  /\ [](C5_ReportsWritten =>
          \A k \in DOMAIN reports :
            C5_Friendly(reports[k]) =>
              \E j \in DOMAIN reportSheet :
                reportSheet[j] = [row |-> reports[k].row, annotation |-> ZeroAnnotation])

\* A finished batch with a 'Friendly' report between Dave, who has no ladder
\* entry, and Bob: the report is in the history, Dave is not in the ladder.
C5_Witness ==
  /\ pc = "done"
  /\ \E k \in DOMAIN reports, j \in DOMAIN reportSheet :
       /\ C5_Friendly(reports[k])
       /\ reports[k].row.winner.v = Dave
       /\ reportSheet[j] = [row |-> reports[k].row, annotation |-> ZeroAnnotation]
  /\ \A e \in DOMAIN originalEntries : originalEntries[e].name # Dave

\* C6: a batch reads the first min(B, P) pending rows in order, and
\* deleteResponses removes exactly those rows; no other step touches the
\* pending rows.
C6_ReadsAndDeletesBatch ==
  [][/\ (pc = "readResponses" /\ pc' # "failed") =>
          /\ Len(reports') = min(batchSize, Len(responseSheet))
          /\ \A k \in DOMAIN reports' :
               reports'[k].row = parseWotrReportRow(responseSheet[k]).v
     /\ (pc = "deleteResponses") =>
          responseSheet' = SubSeq(responseSheet, Len(reports) + 1, Len(responseSheet))
     /\ (pc # "deleteResponses") => responseSheet' = responseSheet
    ]_vars

\* A finished batch of size 2 over 3 pending rows: 2 read, 1 left.
C6_Witness ==
  pc = "done" /\ batchSize = 2 /\ Len(reports) = 2 /\ Len(responseSheet) = 1

\* C7: with zero pending rows no store write is issued, whatever the batch
\* size.  No row has been read and none is left exactly when the table was
\* empty.
C7_NoWriteOnEmptyTable ==
  (responseSheet = <<>> /\ reports = <<>>) => writes = <<>>

C9_Before(report, role) ==
  IF role = "winner" THEN report.annotation[3] ELSE report.annotation[7]
C9_After(report, role) ==
  IF role = "winner" THEN report.annotation[4] ELSE report.annotation[8]
C9_GamesBefore(report, role) ==
  IF role = "winner" THEN report.annotation[1] ELSE report.annotation[5]

\* What the reports say once: for every report whether it is a ladder
\* game, and per role the normalized name and the side.
C9_Roles ==
  [k \in DOMAIN reports |->
     [ladder |-> isLadderGame(reports[k]),
      winner |-> [player |-> normalize(reports[k].row.winner.v),
                  side |-> winningSide(reports[k])],
      loser |-> [player |-> normalize(reports[k].row.loser.v),
                 side |-> losingSide(reports[k])]]]

\* In roles, report k is a ladder game in which player fills role on side.
C9_Plays(roles, k, role, player, side) ==
  /\ roles[k].ladder
  /\ roles[k][role].player = player
  /\ roles[k][role].side = side

\* C9: ladder reports are processed in read order; when a player is on the
\* same side in reports j < k with no ladder report for that player and side
\* between them, report k's rating-before is report j's rating-after, and
\* its games-played-before counts every ladder game of the player from j on.
C9_EarlierVisibleToLater ==
  \A roles \in {C9_Roles} :
  \A k \in 2..(next - 1) : \A j \in 1..(k - 1) : \A rj, rk \in C4_Roles :
    LET player == roles[j][rj].player
        side == roles[j][rj].side
    IN  ( /\ C9_Plays(roles, j, rj, player, side)
          /\ C9_Plays(roles, k, rk, player, side)
          /\ \A i \in (j + 1)..(k - 1) : \A ri \in C4_Roles :
               ~C9_Plays(roles, i, ri, player, side) )
        => /\ C9_Before(reports[k], rk) = C9_After(reports[j], rj)
           /\ C9_GamesBefore(reports[k], rk)
                = C9_GamesBefore(reports[j], rj)
                  + Cardinality({ g \in (j..(k - 1)) \X C4_Roles :
                                    /\ roles[g[1]].ladder
                                    /\ roles[g[1]][g[2]].player = player })

\* Alice wins on Shadow (520 -> 535), then loses on Shadow to Bob: the
\* second report starts from 535 and from one more game.
C9_Witness ==
  /\ next > 2
  /\ reports[1].row.winner.v = Alice /\ reports[1].annotation[4] = 535
  /\ reports[2].row.loser.v = Alice /\ reports[2].annotation[7] = 535
  /\ reports[2].annotation[5] = reports[1].annotation[1] + 1

NO_STATS == "Ladder but I cannot remember the stats"

\* The rows handed to the first setValues call on a sheet; none if the call
\* was never made.
C10_SentTo(sheet) ==
  LET calls == SelectSeq(writes, LAMBDA w : w.sheet = sheet /\ w.op = "setValues")
  IN  IF calls = <<>> THEN <<>> ELSE calls[1].values

C10_In(row, rows) == \E j \in DOMAIN rows : rows[j] = row

\* The rows of sent appear in the order in which reports holds them.
C10_InReadOrder(sent) ==
  \A i, j \in DOMAIN sent :
    i < j => \E a, b \in DOMAIN reports :
               a < b /\ reports[a].row = sent[i] /\ reports[b].row = sent[j]

C11_Place(w) ==
  CASE w.sheet = "WotR Reports" -> 1
    [] w.sheet = "Ladder Games with no stats" -> 2
    [] w.sheet = "WOTR ladder" /\ w.op \in {"insertRowsAfter", "copyTo"} -> 3
    [] w.sheet = "WOTR ladder" /\ w.op = "setValues" -> 4
    [] w.sheet = "WOTR ladder" /\ w.op = "sort" -> 5
    [] w.sheet = "wotr form response" -> 6

\* C11: the reads come before every write; the writes go to the report
\* history with stats, the history without stats, then the ladder (row
\* insertion, write-back, sort), and the pending rows are deleted last, after
\* the ladder write-back and sort.
C11_StoreOrder ==
  /\ pc \in {"getBatchSize", "readResponses", "readLadder", "process"} => writes = <<>>
  /\ \A i, j \in DOMAIN writes : i < j => C11_Place(writes[i]) <= C11_Place(writes[j])
  /\ \A j \in DOMAIN writes :
       C11_Place(writes[j]) = 6 =>
         /\ j = Len(writes)
         /\ \E i \in 1..(j - 1) : C11_Place(writes[i]) = 5
         /\ Cardinality({i \in 1..(j - 1) : C11_Place(writes[i]) = 4}) = 2

\* A finished batch that wrote to all four sheets, new player rows included.
C11_Witness ==
  /\ pc = "done"
  /\ \A place \in 1..6 : \E j \in DOMAIN writes : C11_Place(writes[j]) = place


\* The ladder games of the rows first pending in which name (normalized)
\* takes part, a game counted once per role.
C12_GamesReported(name) ==
  Cardinality({ g \in (DOMAIN started.responses) \X {"winner", "loser"} :
     LET row == started.responses[g[1]]
     IN  /\ isLadderGame(WotrReport(row))
         /\ typeof(row.winner) = "string" /\ typeof(row.loser) = "string"
         /\ normalize(trim(IF g[2] = "winner" THEN row.winner.v ELSE row.loser.v))
              = name })

\* The games played stored for name at the first start, 0 for a new player.
C12_GamesAtStart(name) ==
  LET rows == {k \in DOMAIN started.ladder :
                 /\ typeof(started.ladder[k].name) = "string"
                 /\ typeof(started.ladder[k].gamesPlayed) = "number"
                 /\ normalize(started.ladder[k].name.v) = name}
  IN  IF rows = {} THEN 0 ELSE started.ladder[CHOOSE k \in rows : TRUE].gamesPlayed.v

\* C12: when a run is aborted between two write calls and started again,
\* each report changes the stored ladder at most once: no stored player has
\* more games than at the first start plus the games then pending for that
\* player (processReport adds one game with every rating change).
C12_AtMostOnce ==
  \A k \in DOMAIN ladderSheet :
    ( /\ typeof(ladderSheet[k].name) = "string"
      /\ typeof(ladderSheet[k].gamesPlayed) = "number" )
    => ladderSheet[k].gamesPlayed.v
         <= C12_GamesAtStart(normalize(ladderSheet[k].name.v))
            + C12_GamesReported(normalize(ladderSheet[k].name.v))


\* The entry objects (references) held by the ranked view.
C13_Ranked == {entries[k] : k \in DOMAIN entries}

\* The position of the 'NOT ACTIVE PLAYERS' marker among the loaded entries,
\* one past the last loaded entry when there is none.
C13_Marker ==
  LET found == {k \in 1..originalPlayerCount :
                  originalEntries[k].name = NOT_ACTIVE_PLAYERS}
  IN  IF found = {} THEN originalPlayerCount + 1
      ELSE CHOOSE k \in found : \A h \in found : k <= h

\* C13 as stated: entries and originalEntries always hold the same set of
\* entry objects.
C13_AsStated == C13_Ranked = DOMAIN originalEntries

\* C13, amended: entries holds, once each, exactly the loaded entries before
\* the 'NOT ACTIVE PLAYERS' marker and every entry added since; it holds all
\* of originalEntries exactly when no marker was loaded.
C13_Amended ==
  /\ C13_Ranked = {k \in DOMAIN originalEntries :
                     k < C13_Marker \/ k > originalPlayerCount}
  /\ Cardinality(C13_Ranked) = Len(entries)
  /\ (C13_Ranked = DOMAIN originalEntries) <=> (C13_Marker = originalPlayerCount + 1)

\* A ladder loaded with the marker, after a report that added a player: the
\* new player is ranked, the marker and the inactive player are not.
C13_Witness ==
  /\ pc = "done"
  /\ C13_Marker <= originalPlayerCount
  /\ Len(originalEntries) > originalPlayerCount
  /\ Len(originalEntries) \in C13_Ranked
  /\ C13_Marker \notin C13_Ranked


\* The loaded entries at or after the 'NOT ACTIVE PLAYERS' marker.
C14_Inactive == C13_Marker..originalPlayerCount

C15_RankAtLeastOne == called.op = "getRank" => called.result >= 1


\* The names a processReport call has to create, in the order of the two
\* lookups: the winner if absent, then the loser if still absent.
C16_Created(report) ==
  LET winner == report.row.winner.v
      loser == report.row.loser.v
  IN  (IF C4_Absent(winner) THEN <<winner>> ELSE <<>>)
      \o (IF C4_Absent(loser) /\ normalize(loser) # normalize(winner)
            THEN <<loser>> ELSE <<>>)

\* The names appended by the step.
C16_Appended ==
  [k \in 1..(Len(originalEntries') - Len(originalEntries)) |->
     originalEntries'[Len(originalEntries) + k].name]

\* C16: originalEntries is append-only: the loaded list stays its prefix in
\* the loaded order, every call keeps each entry at its position, and the
\* players a call adds are appended in the order of their creation.
C16_AppendOnly ==
  /\ [](pc = "ladder" =>
          /\ Len(originalEntries) >= originalPlayerCount
          /\ \A k \in 1..originalPlayerCount :
               originalEntries[k].name = started.ladder[k].name)
  /\ [][pc = "ladder" =>
          /\ Len(originalEntries') >= Len(originalEntries)
          /\ \A k \in DOMAIN originalEntries :
               originalEntries'[k].name = originalEntries[k].name
          /\ called'.op = "addPlayer" =>
               /\ C16_Appended = <<called'.name>>
               /\ \A k \in DOMAIN originalEntries :
                    originalEntries'[k] = originalEntries[k]
          /\ called'.op = "processReport" =>
               C16_Appended = C16_Created(called'.result)
          /\ called'.op \in {"getEntry", "getRank"} =>
               originalEntries' = originalEntries
       ]_vars

\* Two players added to a loaded ladder of two, Dave by addPlayer and then
\* Carol by a report: they follow the loaded entries in that order.
C16_Witness ==
  /\ pc = "ladder"
  /\ originalPlayerCount = 2
  /\ Len(originalEntries) = 4
  /\ originalEntries[1].name = Alice /\ originalEntries[2].name = Bob
  /\ originalEntries[3].name = Dave /\ originalEntries[4].name = Carol
  /\ called.op = "processReport"


\* No two entries of objs have the same lower-cased name.
C17_Distinct(objs) ==
  \A a, b \in DOMAIN objs :
    a # b => toLowerCase(objs[a].name) # toLowerCase(objs[b].name)

\* map has one key per entry of objs, the entry's lower-cased name, and
\* maps it to that entry.
C17_OneKeyPerEntry(objs, map) ==
  /\ DOMAIN map = {toLowerCase(objs[k].name) : k \in DOMAIN objs}
  /\ \A k \in DOMAIN objs : map[toLowerCase(objs[k].name)] = k

\* C17: the loaded ladders have pairwise distinct lower-cased names, and a
\* processReport call on a ladder with distinct names leaves the names
\* distinct (a player named in another letter case, or as winner and loser
\* of the report, is added at most once) and entryMap with one key per entry.
C17_UniqueNames ==
  /\ [](next = 1 /\ pc = "ladder" => C17_Distinct(originalEntries))
  /\ [][(called'.op = "processReport" /\ called' # called
           /\ C17_Distinct(originalEntries)) =>
          /\ C17_Distinct(originalEntries')
          /\ C17_OneKeyPerEntry(originalEntries', entryMap')
       ]_vars

\* The report 'Carol beats carol' on a ladder without Carol: one entry was
\* added for both roles.
C17_Witness ==
  /\ called.op = "processReport"
  /\ called.result.row.winner.v = Carol
  /\ called.result.row.loser.v = CarolLower
  /\ Len(originalEntries) = originalPlayerCount + 1
  /\ originalEntries[Len(originalEntries)].name = Carol
  /\ C17_Distinct(originalEntries)


\* C18 as stated: getEntry(name) returns an entry whose stored name equals
\* name up to letter case and surrounding whitespace, and is absent only
\* when there is no such entry.
C18_AsStated ==
  called.op = "getEntry" =>
    LET same(k) == toLowerCase(trim(originalEntries[k].name))
                     = toLowerCase(trim(called.name))
    IN  IF called.result = 0
          THEN \A k \in DOMAIN originalEntries : ~same(k)
          ELSE same(called.result)

\* C18, amended: the lookup only lower-cases its argument: getEntry(name)
\* returns an entry whose stored name equals name up to letter case, and is
\* absent exactly when there is no such entry; whitespace counts.
C18_Amended ==
  called.op = "getEntry" =>
    LET same(k) == toLowerCase(originalEntries[k].name) = toLowerCase(called.name)
    IN  IF called.result = 0
          THEN \A k \in DOMAIN originalEntries : ~same(k)
          ELSE same(called.result)

\* getEntry('alice') has returned the loaded entry of 'Alice', and the
\* ladder also holds 'Carol', which getEntry(' Carol ') would not find.
C18_Witness ==
  /\ called.op = "getEntry"
  /\ called.name = AliceLower
  /\ called.result # 0
  /\ originalEntries[called.result].name = Alice
  /\ getEntry(theLadder, Carol) # 0
  /\ getEntry(theLadder, CarolPadded) = 0


\* The rating cells of entry k before the batch: as loaded, or the default.
C19_Base(k) ==
  IF k <= originalPlayerCount
    THEN <<started.ladder[k].shadowRating, started.ladder[k].freeRating,
           started.ladder[k].gamesPlayed>>
    ELSE <<Num(DEFAULT_RATING), Num(DEFAULT_RATING), Num(0)>>

\* The ladder games (report, role) of player in the batch, on side if given.
C19_Played(roles, player, sides) ==
  { g \in (DOMAIN reports) \X C4_Roles :
      /\ roles[g[1]].ladder
      /\ roles[g[1]][g[2]].player = player
      /\ roles[g[1]][g[2]].side \in sides }

\* The rating cell of a side after the batch: the rating-after of the last
\* report in which the player was on that side, else the cell before.
C19_RatingCell(roles, player, side, before) ==
  LET played == C19_Played(roles, player, {side})
      last == CHOOSE g \in played : \A h \in played : h[1] <= g[1]
  IN  IF played = {} THEN before ELSE Num(C9_After(reports[last[1]], last[2]))

\* The cells writeLadderEntries has to write for entry k.
C19_Expected(roles, k) ==
  LET player == normalize(originalEntries[k].name)
      games == Cardinality(C19_Played(roles, player, {"Shadow", "Free"}))
  IN  << C19_RatingCell(roles, player, "Shadow", C19_Base(k)[1]),
         C19_RatingCell(roles, player, "Free", C19_Base(k)[2]),
         IF games = 0 THEN C19_Base(k)[3] ELSE Num(C19_Base(k)[3].v + games) >>

\* C19: writeLadderEntries writes one name and one rating row per entry of
\* originalEntries, in originalEntries order (the loaded names first), with
\* the side ratings and games played as the batch's reports left them, and
\* the sheet then holds each of these rows.
C19_WriteBack ==
  [][pc = "writeLadderEntries" =>
       \A roles \in {C9_Roles} :
         LET n == Len(writes)
             names == writes'[n + 1]
             ratings == writes'[n + 2]
         IN  /\ Len(writes') = n + 3
             /\ names.sheet = "WOTR ladder" /\ names.op = "setValues"
             /\ ratings.sheet = "WOTR ladder" /\ ratings.op = "setValues"
             /\ Len(names.values) = Len(originalEntries)
             /\ Len(ratings.values) = Len(originalEntries)
             /\ \A k \in DOMAIN originalEntries :
                  /\ names.values[k] = originalEntries[k].name
                  /\ k <= originalPlayerCount =>
                       names.values[k] = trim(started.ladder[k].name.v)
                  /\ ratings.values[k] = C19_Expected(roles, k)
                  /\ \E r \in 1..Len(originalEntries) :
                       /\ ladderSheet'[r].name = Str(names.values[k])
                       /\ <<ladderSheet'[r].shadowRating, ladderSheet'[r].freeRating,
                            ladderSheet'[r].gamesPlayed>> = ratings.values[k]
     ]_vars

\* A write-back of three rows, Alice, Bob and the new player Carol, after two
\* ladder games: Carol's row carries her one game.
C19_Witness ==
  /\ pc = "deleteResponses"
  /\ Len(originalEntries) = 3 /\ originalPlayerCount = 2
  /\ \E j \in DOMAIN writes :
       /\ writes[j].sheet = "WOTR ladder" /\ writes[j].op = "setValues"
       /\ writes[j].values = <<Alice, Bob, Carol>>
       /\ writes[j + 1].values[3][3] = Num(1)
       /\ writes[j + 1].values[1][3] = Num(started.ladder[1].gamesPlayed.v + 2)


\* The position of the divider row in the stored ladder, 0 without one.
C20_Divider ==
  LET found == {k \in DOMAIN ladderSheet : isNotActiveDivider(ladderSheet[k])}
  IN  IF found = {} THEN 0 ELSE CHOOSE k \in found : \A h \in found : k <= h

\* The number of rows of the range handed to sortRange.sort in the step.
C20_SortedRows == writes'[Len(writes')].values

\* C20 as stated: with a divider stored, the sorted range ends above the
\* divider, and the rows at or after it are where write-back put them.
C20_AsStated ==
  [][(pc = "writeLadderEntries" /\ C20_Divider > 0) =>
       /\ C20_SortedRows < C20_Divider
       /\ \A k \in C20_Divider..Len(ladderSheet) :
            ladderSheet'[k].name = writeEntryCells(ladderSheet, originalEntries)[k].name
     ]_vars

\* C20, amended: the sorted range is the rows written back, one per entry of
\* originalEntries, the divider and the rows after it included: the rows
\* below the range (the footer) and the rank column keep their places, and
\* the rows of the range are the written rows in some order.
C20_Amended ==
  [][pc = "writeLadderEntries" =>
       LET written == writeEntryCells(ladderSheet, originalEntries)
           range == 1..Len(originalEntries)
       IN  /\ writes'[Len(writes')].op = "sort"
           /\ C20_SortedRows = Len(originalEntries)
           /\ C20_Divider > 0 => C20_SortedRows >= C20_Divider
           /\ Len(ladderSheet') = Len(ladderSheet)
           /\ \A k \in DOMAIN ladderSheet :
                /\ ladderSheet'[k].rank = ladderSheet[k].rank
                /\ k \notin range => ladderSheet'[k] = ladderSheet[k]
           /\ \A k \in range :
                /\ \E r \in range : [ladderSheet'[r] EXCEPT !.rank = 0]
                                      = [written[k] EXCEPT !.rank = 0]
                /\ \E r \in range : [written[r] EXCEPT !.rank = 0]
                                      = [ladderSheet'[k] EXCEPT !.rank = 0]
     ]_vars

\* A write-back on the stored ladder Alice, divider, Bob, footer: the range
\* sorted had 3 rows, and the footer is still the last row.
C20_Witness ==
  /\ pc = "deleteResponses"
  /\ Len(ladderSheet) = 4
  /\ \E k \in DOMAIN ladderSheet : isNotActiveDivider(ladderSheet[k])
  /\ ladderSheet[4] = Footer
  /\ writes[Len(writes)] = Write("WOTR ladder", "sort", 3)

-----------------------------------------------------------------------------
(* Card ladder claims.                                                     *)

\* A step in which CardLadder.processReport ran to completion.
CardProcessed == next' = next + 1 /\ called'.op = "processReport" /\ called'.ok

CardSides == {"Shadow", "Free"}
CardSideRoles(side) ==
  IF side = "Shadow" THEN {"WitchKing", "Saruman"} ELSE {"Frodo", "Aragorn"}
CardOtherSide(side) == IF side = "Shadow" THEN "Free" ELSE "Shadow"

\* The person of a slot fills both slots of the side.
CardFillsSide(report, side, name) ==
  \A role \in CardSideRoles(side) :
    normalize(getPlayer(report, role)) = normalize(name)

\* The person fills at least one slot of the side.
CardOnSide(report, side, name) ==
  \E role \in CardSideRoles(side) :
    normalize(getPlayer(report, role)) = normalize(name)

\* The entry of a person before the step (the default entry when the step
\* creates it) and after the step.
CardBefore(name) ==
  IF getEntry(theLadder, name) # 0
    THEN originalEntries[getEntry(theLadder, name)]
    ELSE cardGetDefaultEntry(name)
CardAfter(name) == originalEntries'[entryMap'[normalize(name)]]

\* +delta for the winning side, -delta for the losing side.
CardSignedDelta(side) ==
  IF cardWinningSide(called'.report).v = side
    THEN called'.scoreChange ELSE 0 - called'.scoreChange

\* Both role ratings of the side move by the delta, once per role.
C21_Ratings(side, name) ==
  \A role \in CardSideRoles(side) :
    CardAfter(name).rating[role] = CardBefore(name).rating[role] + CardSignedDelta(side)

C22_Persons(report) ==
  Cardinality({toLowerCase(getPlayer(report, role)) : role \in CardRoles})

\* C22 as stated: for every validated ladder game report, whatever names
\* fill its slots, and every ladder state, CardLadder.processReport
\* completes without raising an error.
C22_AsStated ==
  [][(next' = next + 1 /\ called'.op = "processReport") => called'.ok]_vars

\* C22 amended: CardLadder.processReport completes without raising an error
\* exactly when the report names at least two distinct persons; when one
\* person fills all four slots it raises an error and the run ends.
C22_Amended ==
  [][(next' = next + 1 /\ called'.op = "processReport") =>
       /\ called'.ok <=> C22_Persons(called'.report) >= 2
       /\ called'.ok <=> pc' = "card"
       /\ ~called'.ok <=> pc' = "failed"]_vars

\* A first report was processed to completion, then a report with Dave in
\* all four slots raised the error.
C22_Witness ==
  /\ pc = "failed" /\ next = 3 /\ called.op = "processReport" /\ ~called.ok
  /\ \A role \in CardRoles : getPlayer(called.report, role) = Dave
  /\ Len(originalEntries) > originalPlayerCount

\* C30: for every team report that CardLadder.processReport processes, the
\* total games played of each distinct person the report names goes up by
\* exactly 1, whichever role slots (of one side or of both sides) the
\* person fills.
C30_CountedOnce ==
  [][CardProcessed =>
       \A slot \in CardRoles :
         \A name \in {getPlayer(called'.report, slot)} :
           CardAfter(name).gamesPlayed = CardBefore(name).gamesPlayed + 1]_vars

-----------------------------------------------------------------------------
(* Batch claims, continued.                                                *)

\* A batch-size cell that is neither empty nor a number.
C23_Malformed == c21 # EmptyString /\ typeof(c21) # "number"

\* Nothing has been read from the pending reports or the ladder and nothing
\* has been written.
C23_Untouched ==
  /\ reports = <<>> /\ originalEntries = <<>> /\ entries = <<>>
  /\ originalPlayerCount = 0
  /\ writes = <<>>
  /\ ladderSheet = started.ladder /\ responseSheet = started.responses
  /\ reportSheet = <<OldReport>> /\ reportSheetWithoutStats = <<>>

\* C23: a batch-size setting that is neither empty nor a number aborts the
\* batch before any pending report row or ladder row is read and before
\* any store write; an empty setting never aborts and selects the fixed
\* default batch size.
C23_BatchSizeSetting ==
  [][pc = "getBatchSize" =>
       /\ C23_Malformed => (pc' = "failed" /\ C23_Untouched /\ C23_Untouched')
       /\ c21 = EmptyString => (pc' = "readResponses" /\ batchSize' = 25)]_vars

\* The batch was aborted over the setting 'ten' with reports pending.
C23_Witness ==
  /\ pc = "failed" /\ c21 = Str(<<"t", "e", "n">>)
  /\ responseSheet # <<>> /\ C23_Untouched

-----------------------------------------------------------------------------
(* Ladder claims, continued.                                               *)

\* A step in which WotrLadder.processReport ran.
LadderProcessed == next' = next + 1 /\ called'.op = "processReport"

\* The ladder after the auto-creation of the report's absent players and
\* before any change to a rating or a games-played count.
C24_Created(report) ==
  resolved(resolved(theLadder, report.row.winner.v), report.row.loser.v)

\* The rank of a name: the first position of the ranked view that holds an
\* entry of that name (letter case ignored), 0 when there is none.
C24_Named(ladder, name) ==
  {k \in DOMAIN ladder.entries :
     toLowerCase(ladder.originalEntries[ladder.entries[k]].name) = toLowerCase(name)}
C24_Rank(ladder, name) ==
  IF C24_Named(ladder, name) = {} THEN 0
  ELSE CHOOSE k \in C24_Named(ladder, name) :
         \A h \in C24_Named(ladder, name) : k <= h

C24_Rating(entry, side) ==
  IF side = "Shadow" THEN entry.shadowRating.v ELSE entry.freeRating.v

\* C24: after WotrLadder.processReport the annotation of the report is the
\* 8-tuple (winner games played before, winner rank before, winner
\* winning-side rating before, the same rating after, loser games played
\* before, loser rank before, loser losing-side rating before, the same
\* rating after), every 'before' value being read after any auto-creation
\* and before any rating or games-played change of this report.
C24_Annotation ==
  [][LadderProcessed =>
       \A report \in {called'.result} :
       \A before \in {C24_Created(report)} :
       \A winner \in {before.entryMap[toLowerCase(report.row.winner.v)]} :
       \A loser \in {before.entryMap[toLowerCase(report.row.loser.v)]} :
         report.annotation =
           << before.originalEntries[winner].gamesPlayed.v,
              C24_Rank(before, report.row.winner.v),
              C24_Rating(before.originalEntries[winner], winningSide(report)),
              C24_Rating(originalEntries'[winner], winningSide(report)),
              before.originalEntries[loser].gamesPlayed.v,
              C24_Rank(before, report.row.loser.v),
              C24_Rating(before.originalEntries[loser], losingSide(report)),
              C24_Rating(originalEntries'[loser], losingSide(report)) >>]_vars

\* Carol was created by the first report, which she won as Free against
\* Alice: her 'before' values are those of the fresh entry, ranked.
C24_Witness ==
  /\ pc = "ladder" /\ next = 2 /\ called.op = "processReport"
  /\ called.result.row.winner.v = Carol
  /\ originalPlayerCount = 2 /\ Len(originalEntries) = 3
  /\ called.result.annotation[1] = 0
  /\ called.result.annotation[2] >= 1
  /\ called.result.annotation[3] = 500
  /\ called.result.annotation[4] > 500
  /\ called.result.annotation[5] > 0

\* The ranked view is in the order of non-increasing average rating.
C25_Sorted(ladder) ==
  \A k \in 1..(Len(ladder.entries) - 1) :
    avgRatingTimes2(ladder.originalEntries[ladder.entries[k]])
      >= avgRatingTimes2(ladder.originalEntries[ladder.entries[k + 1]])

\* C25: at each getRank call inside processReport, for any loaded ladder
\* and any preceding reports, the ranked view entries is in the order of
\* non-increasing average rating.  (The two getRank calls are made on the
\* ladder as it is after the auto-creation of the report's players.)
C25_RankSeesSortedView ==
  [][LadderProcessed => C25_Sorted(C24_Created(called'.result))]_vars

\* The games-played counts of the report's winner and loser entries went up
\* by the given amounts and every other entry is as it was.
C26_Counted(byWinner, byLoser) ==
  \A report \in {called'.result} :
  \A before \in {C24_Created(report)} :
  \A winner \in {before.entryMap[toLowerCase(report.row.winner.v)]} :
  \A loser \in {before.entryMap[toLowerCase(report.row.loser.v)]} :
    /\ originalEntries'[winner].gamesPlayed.v
         = before.originalEntries[winner].gamesPlayed.v + byWinner
    /\ originalEntries'[loser].gamesPlayed.v
         = before.originalEntries[loser].gamesPlayed.v + byLoser
    /\ DOMAIN originalEntries' = DOMAIN before.originalEntries
    /\ \A k \in DOMAIN originalEntries :
         k \notin {winner, loser} => originalEntries'[k] = originalEntries[k]
    /\ \A k \in DOMAIN originalEntries' :
         k \notin DOMAIN originalEntries => k \in {winner, loser}

C26_SamePlayer ==
  toLowerCase(called'.result.row.winner.v) = toLowerCase(called'.result.row.loser.v)

\* C26 as stated: processing one head-to-head ladder report increases
\* gamesPlayed by exactly 1 for the winner and by exactly 1 for the loser,
\* and leaves gamesPlayed and ratings of every other entry unchanged.
C26_AsStated == [][LadderProcessed => C26_Counted(1, 1)]_vars

\* C26 amended: processing one head-to-head ladder report increases
\* gamesPlayed by exactly 1 for the winner and by exactly 1 for the loser
\* when they are different players, and by exactly 2 for the one entry when
\* the report names the same player as winner and loser; gamesPlayed and
\* ratings of every other entry are unchanged.
C26_Amended ==
  [][LadderProcessed =>
       IF C26_SamePlayer THEN C26_Counted(2, 2) ELSE C26_Counted(1, 1)]_vars

\* The first report, alice over Bob, was processed on the ladder Alice (3
\* games), Bob (5 games).
C26_Witness ==
  /\ pc = "ladder" /\ next = 2 /\ called.op = "processReport"
  /\ called.result.row.winner.v = AliceLower /\ called.result.row.loser.v = Bob
  /\ Len(originalEntries) = 2
  /\ originalEntries[1].name = Alice /\ originalEntries[1].gamesPlayed.v = 4
  /\ originalEntries[2].name = Bob /\ originalEntries[2].gamesPlayed.v = 6
  /\ called.result.annotation[1] = 3 /\ called.result.annotation[5] = 5

\* The rating points of an entry: shadowRating + freeRating; the divider
\* row holds '' in both cells and has no points.
C28_Points(entry) ==
  (IF typeof(entry.shadowRating) = "number" THEN entry.shadowRating.v ELSE 0)
    + (IF typeof(entry.freeRating) = "number" THEN entry.freeRating.v ELSE 0)

RECURSIVE C28_Sum(_)
C28_Sum(ents) ==
  IF ents = <<>> THEN 0 ELSE C28_Points(Head(ents)) + C28_Sum(Tail(ents))

\* C28: after any sequence of WotrLadder.processReport calls, the sum of
\* shadowRating + freeRating over originalEntries equals the sum at load
\* time plus 1000 for every player created since, reports whose winner and
\* loser are the same player included.
C28_PointsConserved ==
  C28_Sum(originalEntries)
    = C28_Sum(started.ladder)
        + 1000 * (Len(originalEntries) - Len(started.ladder))

\* Two reports were processed, the second with Carol as both winner and
\* loser; Carol was created on the way and her two ratings have moved.
C28_Witness ==
  /\ pc = "ladder" /\ next = 3 /\ called.op = "processReport"
  /\ called.result.row.winner.v = Carol /\ called.result.row.loser.v = CarolLower
  /\ Len(originalEntries) > Len(started.ladder)
  /\ called.result.annotation[4] > called.result.annotation[3]
  /\ called.result.annotation[8] < called.result.annotation[7]
  /\ \E k \in DOMAIN started.ladder :
       C28_Points(originalEntries[k]) # C28_Points(started.ladder[k])

-----------------------------------------------------------------------------
(* Batch claims, continued.                                                *)

\* The normalized names of the players of the batch's ladder games.
C29_EligibleNames ==
  UNION { {toLowerCase(reports[k].row.winner.v), toLowerCase(reports[k].row.loser.v)} :
            k \in {h \in DOMAIN reports : isLadderGame(reports[h])} }

\* The normalized names of the rows loaded from the stored ladder, the
\* divider and the inactive rows below it included.
C29_LoadedNames ==
  {toLowerCase(trim(started.ladder[k].name.v)) :
     k \in 1..numPlayersOf(started.ladder)}

\* The count handed to prepareNewPlayerRows.
C29_NewPlayerCount == Len(originalEntries) - originalPlayerCount

\* C29: the number of new ladder rows requested from prepareNewPlayerRows
\* equals the number of distinct normalized names that occur in the
\* batch's ladder games and were absent from the loaded ladder; a name that
\* occurs only in other reports adds no row, and names of the inactive
\* block count as loaded.
C29_NewRowsRequested ==
  /\ pc = "prepareNewPlayerRows" =>
       C29_NewPlayerCount = Cardinality(C29_EligibleNames \ C29_LoadedNames)
  /\ \A k \in DOMAIN writes :
       writes[k].op = "insertRowsAfter" =>
         writes[k].values = Cardinality(C29_EligibleNames \ C29_LoadedNames)

\* A batch on a ladder with an inactive block: a ladder game of the
\* inactive Bob, a friendly game of the unknown Dave, and one new player.
C29_Witness ==
  /\ pc = "prepareNewPlayerRows"
  /\ \E k \in DOMAIN started.ladder : started.ladder[k].name.v = NOT_ACTIVE_PLAYERS
  /\ \E k \in DOMAIN reports :
       /\ isLadderGame(reports[k])
       /\ Bob \in {reports[k].row.winner.v, reports[k].row.loser.v}
  /\ \E k \in DOMAIN reports :
       /\ ~isLadderGame(reports[k])
       /\ Dave \in {reports[k].row.winner.v, reports[k].row.loser.v}
  /\ toLowerCase(Dave) \notin C29_EligibleNames
  /\ C29_NewPlayerCount = 1

-----------------------------------------------------------------------------
(* Validator claims.                                                       *)

\* One of shadowRating, freeRating, gamesPlayed of the row is not a number.
C27_NonNumber(row) ==
  \/ typeof(row.shadowRating) # "number"
  \/ typeof(row.freeRating) # "number"
  \/ typeof(row.gamesPlayed) # "number"

\* The row is the inactive divider: its name is exactly 'NOT ACTIVE
\* PLAYERS' and the three fields are ''.
C27_Divider(row) ==
  /\ row.name = Str(<<"N", "O", "T", " ", "A", "C", "T", "I", "V", "E", " ",
                      "P", "L", "A", "Y", "E", "R", "S">>)
  /\ row.shadowRating = EmptyString
  /\ row.freeRating = EmptyString
  /\ row.gamesPlayed = EmptyString

\* C27: parseWotrLadderRow accepts a row whose shadowRating, freeRating or
\* gamesPlayed is not a number only when the row is the inactive divider;
\* every other row with a non-number in one of those fields, or with a
\* length other than 7, is rejected with an error and nothing is returned.
C27_DividerOnly ==
  called.op = "parseWotrLadderRow" =>
    \A row \in {ladderSheet[1]} :
      /\ (called.result.ok /\ C27_NonNumber(row)) => C27_Divider(row)
      /\ ((C27_NonNumber(row) /\ ~C27_Divider(row)) \/ row.len # 7) =>
           called.result = Thrown

\* The divider row was accepted with '' in its three fields.
C27_Witness ==
  /\ pc = "parsed" /\ called.op = "parseWotrLadderRow" /\ called.result.ok
  /\ C27_Divider(ladderSheet[1])
  /\ called.result.v.shadowRating = EmptyString

=============================================================================
